---- MODULE Spec2Model ----
(***************************************************************************)
(* Model of the OAuth / social-login subsystem of auth-kit                 *)
(* (packages/fastapi/auth_kit_fastapi): the signed state token             *)
(* (core/oauth_state.py) and the authorize / callback / link / unlink      *)
(* request handlers (api/oauth.py) over the users and social_accounts      *)
(* tables (models/social_account.py).                                      *)
(*                                                                         *)
(* Every request is handled by its own unit of execution with its own      *)
(* database session; the handlers hold no lock and take no row lock, so    *)
(* the statements of two requests interleave between commits.  A handler   *)
(* is therefore a sequence of steps, one per database round trip or        *)
(* provider call, and a request slot records where its handler stands.     *)
(***************************************************************************)
EXTENDS Integers, Sequences, FiniteSets, TLC

\* ------------------------------------------------------------------ bounds

MaxTime == 4            \* the clock stops after this many ticks
TicksPerSecond == 2     \* clock resolution: ticks in one second
MaxRequests == 3        \* requests started in one behaviour
MaxInFlight == 2        \* requests handled concurrently
MaxTokens == 1          \* state tokens minted in one behaviour
MaxNewUsers == 1        \* users created by callback in one behaviour
MaxTtl == 1             \* largest expiry_seconds given to sign_state directly

\* config.oauth_state_expiry_seconds, in seconds (600 by default), scaled
oauth_state_expiry_seconds == 1

\* ------------------------------------------------------------------ values

None == "none"                       \* Python None / an absent JWT claim
Never == 0 - 1                       \* last_login_at of a user who never logged in

Providers == {"google", "github"}    \* features.social_login, with credentials
KnownProviders == {"google", "github", "apple"}
PathProviders == {"google", "github", "GitHub", "apple"}

SigningKey == "k_state"              \* config.get_oauth_state_signing_key()
JwtSecret == "k_jwt"                 \* config.jwt_secret
OtherKey == "k_other"

UserIds == {"u1", "u2"}              \* users present from the start
NewUserIds == {"u3", "u4"}           \* ids handed to users created by callback
Redirects == {"r1"}                  \* redirect URIs the clients start flows with
RequestRedirects == {"r1", "r2", ""} \* redirect_uri values of callback/link bodies
Verifiers == {"v1", "v2", "v_nonascii"}

Reqs == 1..MaxInFlight

VARIABLES
    now,        \* wall clock, in ticks
    users,      \* rows of the users table
    passkeys,   \* user id -> number of UserCredential rows
    accounts,   \* rows of the social_accounts table
    minted,     \* number of state tokens signed so far
    tokens,     \* the signed state tokens in the clients' hands
    issued,     \* history: when and with what ttl each token was signed
    req,        \* request slot -> the handler's position and locals
    nreq,       \* requests started so far
    last,       \* the request that ended most recently, with its response
    config,     \* the AuthConfig the requests are served with
    _provider_cache,    \* factory.py: provider name -> the cached adapter
    environ,    \* os.environ: AUTH_KIT_OAUTH_TOKEN_ENCRYPTION_KEY
    _encryption_instance,   \* crypto_oauth.py: the cached OAuthTokenEncryption
    _jwks_cache,        \* apple.py: the JWKS the Apple adapter holds
    _jwks_cached_at,    \* apple.py: the time that JWKS was stored under
    served      \* history: the key lists of the JWKS responses with status 200

vars == <<now, users, passkeys, accounts, minted, tokens, issued, req, nreq, last, config, _provider_cache, environ, _jwks_cache, _jwks_cached_at, served, _encryption_instance>>

\* ------------------------------------------------------------------ helpers

\* Python truthiness of an optional string
Falsy(x) == x = None \/ x = ""

\* str.lower() of the path parameter
Lower(p) == IF p = "GitHub" THEN "github" ELSE p

\* timegm(dt.utctimetuple()): a datetime as whole seconds, the fraction dropped
Seconds(t) == t \div TicksPerSecond

\* hashlib.sha256(value.encode("ascii")) then urlsafe base64 without padding;
\* "encode_error" stands for the UnicodeEncodeError of a non-ASCII value
_base64url_sha256(v) ==
    CASE v = "v1" -> "c1"
      [] v = "v2" -> "c2"
      [] OTHER -> "encode_error"

\* ------------------------------------------------------------------ state token
\* core/oauth_state.py.  A token is the JWT's payload together with the key
\* its signature was made with; an absent claim is None.

NoToken ==
    [type |-> None, provider |-> None, redirect_uri |-> None, mode |-> None,
     cc |-> None, link_user_id |-> None, nonce |-> 0, iat |-> 0, exp |-> 0,
     key |-> None]

\* sign_state's argument checks: the ValueError it raises, or None
sign_state_error(provider, redirect_uri, mode, link_user_id) ==
    CASE Falsy(provider) -> "provider is required"
      [] Falsy(redirect_uri) -> "redirect_uri is required"
      [] mode \notin {"login", "link"} -> "mode must be 'login' or 'link'"
      [] mode = "link" /\ Falsy(link_user_id) -> "link_user_id is required"
      [] OTHER -> None

\* sign_state leaving the code challenge out of the payload
sign_state_without_cc(provider, redirect_uri, mode, signing_key, code_challenge, link_user_id, expiry_seconds, nonce, t) ==
    [type |-> "oauth_state",
     provider |-> provider,
     redirect_uri |-> redirect_uri,
     mode |-> mode,
     cc |-> None,
     link_user_id |-> IF Falsy(link_user_id) THEN None ELSE link_user_id,
     nonce |-> nonce,
     iat |-> Seconds(t),
     exp |-> Seconds(t + expiry_seconds * TicksPerSecond),
     key |-> signing_key]

\* the token sign_state returns at tick t, nonce being the fresh random value
sign_state(provider, redirect_uri, mode, signing_key, code_challenge, link_user_id, expiry_seconds, nonce, t) ==
    [type |-> "oauth_state",
     provider |-> provider,
     redirect_uri |-> redirect_uri,
     mode |-> mode,
     cc |-> IF Falsy(code_challenge) THEN None ELSE code_challenge,
     link_user_id |-> IF Falsy(link_user_id) THEN None ELSE link_user_id,
     nonce |-> nonce,
     iat |-> Seconds(t),
     exp |-> Seconds(t + expiry_seconds * TicksPerSecond),
     key |-> signing_key]

\* a call of sign_state that returned a token: when, and with what arguments
SignCall(nonce, t, expiry_seconds, provider, redirect_uri, mode, code_challenge, link_user_id) ==
    [nonce |-> nonce, at |-> t, ttl |-> expiry_seconds, provider |-> provider,
     redirect_uri |-> redirect_uri, mode |-> mode, code_challenge |-> code_challenge,
     link_user_id |-> link_user_id]

\* jwt.decode told not to validate the exp claim
jwt_decode_no_exp(state, signing_key, t) ==
    CASE state.key # signing_key -> "invalid_token"
      [] OTHER -> "ok"

\* jwt.decode at tick t: the signature first, then the exp claim, which is
\* rejected only when it lies before the current whole second
jwt_decode(state, signing_key, t) ==
    CASE state.key # signing_key -> "invalid_token"
      [] state.exp < Seconds(t) -> "expired"
      [] OTHER -> "ok"

\* verify_state without the check of the type claim (lines 158-161)
verify_state_any_type(state, signing_key, expected_provider, expected_redirect_uri, expected_mode, t) ==
    CASE jwt_decode(state, signing_key, t) # "ok" ->
            jwt_decode(state, signing_key, t)
      [] state.provider = None -> "missing_provider"
      [] state.redirect_uri = None -> "missing_redirect_uri"
      [] state.mode = None -> "missing_mode"
      [] state.mode \notin {"login", "link"} -> "invalid_mode"
      [] state.mode = "link" /\ Falsy(state.link_user_id) ->
            "missing_link_user_id"
      [] ~Falsy(expected_provider) /\ state.provider # expected_provider ->
            "provider_mismatch"
      [] ~Falsy(expected_redirect_uri)
           /\ state.redirect_uri # expected_redirect_uri ->
            "redirect_uri_mismatch"
      [] ~Falsy(expected_mode) /\ state.mode # expected_mode ->
            "mode_mismatch"
      [] OTHER -> "ok"

\* verify_state without the link_user_id requirement (lines 174-176)
verify_state_link_without_user(state, signing_key, expected_provider, expected_redirect_uri, expected_mode, t) ==
    CASE jwt_decode(state, signing_key, t) # "ok" ->
            jwt_decode(state, signing_key, t)
      [] state.type # "oauth_state" -> "invalid_type"
      [] state.provider = None -> "missing_provider"
      [] state.redirect_uri = None -> "missing_redirect_uri"
      [] state.mode = None -> "missing_mode"
      [] state.mode \notin {"login", "link"} -> "invalid_mode"
      [] ~Falsy(expected_provider) /\ state.provider # expected_provider ->
            "provider_mismatch"
      [] ~Falsy(expected_redirect_uri)
           /\ state.redirect_uri # expected_redirect_uri ->
            "redirect_uri_mismatch"
      [] ~Falsy(expected_mode) /\ state.mode # expected_mode ->
            "mode_mismatch"
      [] OTHER -> "ok"

\* verify_state comparing with the expected values before the structural checks
verify_state_match_first(state, signing_key, expected_provider, expected_redirect_uri, expected_mode, t) ==
    CASE jwt_decode(state, signing_key, t) # "ok" ->
            jwt_decode(state, signing_key, t)
      [] ~Falsy(expected_provider) /\ state.provider # expected_provider ->
            "provider_mismatch"
      [] ~Falsy(expected_redirect_uri)
           /\ state.redirect_uri # expected_redirect_uri ->
            "redirect_uri_mismatch"
      [] ~Falsy(expected_mode) /\ state.mode # expected_mode ->
            "mode_mismatch"
      [] state.type # "oauth_state" -> "invalid_type"
      [] state.provider = None -> "missing_provider"
      [] state.redirect_uri = None -> "missing_redirect_uri"
      [] state.mode = None -> "missing_mode"
      [] state.mode \notin {"login", "link"} -> "invalid_mode"
      [] state.mode = "link" /\ Falsy(state.link_user_id) ->
            "missing_link_user_id"
      [] OTHER -> "ok"

\* verify_state at tick t: "ok", or the first check that fails
verify_state(state, signing_key, expected_provider, expected_redirect_uri, expected_mode, t) ==
    CASE jwt_decode(state, signing_key, t) # "ok" ->
            jwt_decode(state, signing_key, t)
      [] state.type # "oauth_state" -> "invalid_type"
      [] state.provider = None -> "missing_provider"
      [] state.redirect_uri = None -> "missing_redirect_uri"
      [] state.mode = None -> "missing_mode"
      [] state.mode \notin {"login", "link"} -> "invalid_mode"
      [] state.mode = "link" /\ Falsy(state.link_user_id) ->
            "missing_link_user_id"
      [] ~Falsy(expected_provider) /\ state.provider # expected_provider ->
            "provider_mismatch"
      [] ~Falsy(expected_redirect_uri)
           /\ state.redirect_uri # expected_redirect_uri ->
            "redirect_uri_mismatch"
      [] ~Falsy(expected_mode) /\ state.mode # expected_mode ->
            "mode_mismatch"
      [] OTHER -> "ok"

\* the exception class verify_state raises for an outcome
StateErrorClass(outcome) ==
    CASE outcome = "ok" -> None
      [] outcome = "expired" -> "OAuthStateExpiredError"
      [] outcome \in {"missing_provider", "missing_redirect_uri",
                      "missing_mode", "missing_link_user_id"} ->
            "OAuthStateMissingFieldError"
      [] OTHER -> "OAuthStateInvalidError"

verify_state_for_callback(state, signing_key, expected_provider, expected_redirect_uri, t) ==
    verify_state(state, signing_key, expected_provider,
                 expected_redirect_uri, None, t)

\* _verify_pkce_binding: "ok", or the reason it raises
_verify_pkce_binding(state_payload, code_verifier) ==
    CASE Falsy(state_payload.cc) -> "missing_cc"
      [] _base64url_sha256(code_verifier) = "encode_error" -> "encode_error"
      [] _base64url_sha256(code_verifier) # state_payload.cc -> "mismatch"
      [] OTHER -> "ok"

\* ------------------------------------------------------------------ token cipher

VERSION_PREFIX == "v1:"
NONCE_LENGTH == 12
TagLength == 16                      \* AES-GCM appends a 16-byte tag

EncryptionKey == "ek1"               \* a base64 key of 32 bytes
OtherEncryptionKey == "ek2"
EnvEncryptionKey == "ek_env"         \* the key the environment may hold
BadKey == "bad_key"                  \* a value that is no base64 of 32 bytes

\* the output of AESGCM.encrypt(nonce, data, None): ciphertext and tag.  It
\* opens under the key and nonce it was sealed with, while no byte of it has
\* been changed (intact)
NoBox == [key |-> None, nonce |-> None, plaintext |-> None, intact |-> FALSE]

AESGCM_encrypt(key, nonce, data) == [key |-> key, nonce |-> nonce, plaintext |-> data, intact |-> TRUE]

\* AESGCM.decrypt(nonce, data, None): the plaintext, or InvalidTag
AESGCM_decrypt(key, nonce, box) ==
    IF box.intact /\ box.key = key /\ box.nonce = nonce
    THEN [error |-> None, value |-> box.plaintext]
    ELSE [error |-> "InvalidTag", value |-> None]

\* a stored string: its first three characters (prefix), how the rest reads
\* as base64 (form: canonical, as b64encode writes it; lenient, a text
\* b64decode maps to the same bytes, such as one with a line break in it or
\* with the spare bits of its last character set; invalid, a text b64decode
\* rejects), and the bytes it decodes to: their number (length), the first
\* twelve (nonce) and the rest (box)
Null == [prefix |-> None, form |-> None, length |-> 0, nonce |-> None, box |-> NoBox]

\* encrypt sealing under an all-zero key when the instance holds none
encrypt_zero_key(plaintext, key, nonce) ==
    IF plaintext = None
    THEN [error |-> "ValueError", value |-> Null]
    ELSE [error |-> None,
          value |-> [prefix |-> VERSION_PREFIX, form |-> "canonical",
                     length |-> NONCE_LENGTH + Len(plaintext) + TagLength, nonce |-> nonce,
                     box |-> AESGCM_encrypt(IF key = None THEN "zero" ELSE key, nonce, plaintext)]]

\* encrypt without the version prefix
encrypt_no_prefix(plaintext, key, nonce) ==
    IF key = None
    THEN [error |-> None, value |-> Null]
    ELSE IF plaintext = None
    THEN [error |-> "ValueError", value |-> Null]
    ELSE [error |-> None,
          value |-> [prefix |-> "", form |-> "canonical",
                     length |-> NONCE_LENGTH + Len(plaintext) + TagLength, nonce |-> nonce,
                     box |-> AESGCM_encrypt(key, nonce, plaintext)]]

\* OAuthTokenEncryption.encrypt of the instance holding key (None: not
\* configured), nonce being what os.urandom returns
encrypt(plaintext, key, nonce) ==
    IF key = None
    THEN [error |-> None, value |-> Null]
    ELSE IF plaintext = None
    THEN [error |-> "ValueError", value |-> Null]
    ELSE [error |-> None,
          value |-> [prefix |-> VERSION_PREFIX, form |-> "canonical",
                     length |-> NONCE_LENGTH + Len(plaintext) + TagLength, nonce |-> nonce,
                     box |-> AESGCM_encrypt(key, nonce, plaintext)]]

\* OAuthTokenEncryption.decrypt of the instance holding key
decrypt(encrypted, key) ==
    IF key = None
    THEN [error |-> None, value |-> None]
    ELSE IF encrypted = Null
    THEN [error |-> "ValueError", value |-> None]
    ELSE IF encrypted.prefix # VERSION_PREFIX
    THEN [error |-> "ValueError", value |-> None]
    ELSE IF encrypted.form \notin {"canonical", "lenient"}
    THEN [error |-> "ValueError", value |-> None]
    ELSE IF encrypted.length < NONCE_LENGTH + 1
    THEN [error |-> "ValueError", value |-> None]
    ELSE AESGCM_decrypt(key, encrypted.nonce, encrypted.box)

\* no OAuthTokenEncryption built yet
NoInstance == "no_instance"

\* get_encryption: the key of the instance encrypt_token works with (None:
\* an instance that is not configured) and the cached instance afterwards
get_encryption(encryption_key, instance, env) ==
    IF encryption_key # None
    THEN [error |-> None, key |-> encryption_key, instance |-> instance]
    ELSE IF instance # NoInstance
    THEN [error |-> None, key |-> instance, instance |-> instance]
    ELSE IF env = BadKey
    THEN [error |-> "ValueError", key |-> None, instance |-> instance]
    ELSE [error |-> None, key |-> env, instance |-> env]

\* encrypt_token
encrypt_token(plaintext, encryption_key, nonce, instance, env) ==
    LET enc == get_encryption(encryption_key, instance, env)
    IN  IF enc.error # None
        THEN [error |-> enc.error, value |-> Null, instance |-> enc.instance]
        ELSE [error |-> encrypt(plaintext, enc.key, nonce).error,
              value |-> encrypt(plaintext, enc.key, nonce).value,
              instance |-> enc.instance]

\* OAuthTokens: what a token exchange returned
OAuthTokens(access_token, refresh_token, id_token) ==
    [access_token |-> access_token, refresh_token |-> refresh_token, id_token |-> id_token,
     token_type |-> "Bearer", scope |-> None, expires_at |-> None]

\* the exchange's answer with its token_type, scope and expires_at members
Granted(oauth_tokens, token_type, scope, expires_at) ==
    [oauth_tokens EXCEPT !.token_type = token_type, !.scope = scope, !.expires_at = expires_at]

\* the tokens, stored encrypted
TokenFields == {"access_token", "refresh_token", "id_token"}

\* what is stored with them as it is
PlainFields == {"token_type", "scope", "expires_at"}

\* the token columns of a social account, all unset
NoTokens == [f \in TokenFields \cup PlainFields |-> IF f \in TokenFields THEN Null ELSE None]

\* the columns of the rows stored before the behaviour starts
EarlierTokens ==
    [NoTokens EXCEPT !["access_token"] = encrypt("at0", EncryptionKey, "n0").value,
                     !["refresh_token"] = encrypt("rt0", EncryptionKey, "n0").value,
                     !["token_type"] = "Bearer", !["scope"] = "s0", !["expires_at"] = "e0"]

\* ------------------------------------------------------------------ store

NoProfile == [provider_user_id |-> None, email |-> None, email_verified |-> FALSE]
NoRow == [id |-> 0, user_id |-> None, provider |-> None, provider_user_id |-> None, tokens |-> NoTokens]

\* what the provider may answer with: get_user_identity's profile
Profiles ==
    { [provider_user_id |-> "p1", email |-> "b@x", email_verified |-> TRUE],
      [provider_user_id |-> "p1", email |-> "a@x", email_verified |-> TRUE],
      [provider_user_id |-> "p2", email |-> "b@x", email_verified |-> FALSE],
      [provider_user_id |-> "p2", email |-> "n@x", email_verified |-> TRUE],
      [provider_user_id |-> "p2", email |-> None, email_verified |-> FALSE] }

\* the table without uq_social_provider_user
UniqueViolation_user_provider_only(rows, row) ==
    \E a \in rows : a.user_id = row.user_id /\ a.provider = row.provider

\* SocialAccount.__table_args__: the insert of row into rows breaks
\* uq_social_provider_user or uq_social_user_provider
UniqueViolation(rows, row) ==
    \E a \in rows :
        \/ a.provider = row.provider /\ a.provider_user_id = row.provider_user_id
        \/ a.user_id = row.user_id /\ a.provider = row.provider

\* the primary key of the next row (a fresh uuid4): one no row has and no
\* handler holds
NextRowId ==
    LET used == {a.id : a \in accounts} \cup {req[r].row.id : r \in Reqs}
    IN  1 + CHOOSE m \in used : \A j \in used : j <= m

\* a lookup that matches no row
ByIdentity_no_match(provider, puid) == {}

\* db.query(SocialAccount).filter(provider, provider_user_id)
ByIdentity(provider, puid) ==
    {a \in accounts : a.provider = provider /\ a.provider_user_id = puid}

\* db.query(SocialAccount).filter(user_id, provider)
ByUserProvider(uid, provider) ==
    {a \in accounts : a.user_id = uid /\ a.provider = provider}

\* db.query(SocialAccount).filter(user_id).count()
SocialCount(uid) == Cardinality({a \in accounts : a.user_id = uid})

UserById(uid) == {u \in users : u.id = uid}

\* a lookup that matches no user
UserByEmail_no_match(email) == {}

\* db.query(User).filter(User.email == profile.email)
UserByEmail(email) == {u \in users : u.email = email}

\* get_current_active_user: the callers that pass the dependency
ActiveUsers == {u.id : u \in {x \in users : x.is_active}}

\* ------------------------------------------------------------------ Apple's signing keys
\* services/oauth/providers/apple.py.  A key list is the set of its keys' ids.

jwks_cache_ttl_seconds == 1

\* _jwks_cache: None, or the dict {"keys": keys}
NoJwks == [present |-> FALSE, keys |-> {}]

Jwks(keys) == [present |-> TRUE, keys |-> keys]

\* ------------------------------------------------------------------ provider responses

\* what an endpoint of the provider answers: nothing (kind network_error:
\* httpx raises an HTTPError), or a response with a status and a body that
\* is empty, text that is no JSON, or a JSON object with the fields below
NoResponse ==
    [kind |-> None, status |-> 0, body |-> None, error |-> None, access_token |-> None,
     refresh_token |-> None, id_token |-> None, sub |-> None, email |-> None,
     primary_email |-> None, email_verified |-> FALSE, keys |-> {}]

NetworkError == [NoResponse EXCEPT !.kind = "network_error"]

Response(status, body) == [NoResponse EXCEPT !.kind = "response", !.status = status, !.body = body]

\* the error payload of a response: its JSON object, {} for an empty body
EmptyPayload == [error |-> None, access_token |-> None]

Payload(resp) == [error |-> resp.error, access_token |-> resp.access_token]

\* what GitHub's /user/emails answers: nothing, or a response whose body is
\* text that is no JSON or a JSON list of entries {email, primary, verified}
NoEmails == [kind |-> None, status |-> 0, body |-> None, entries |-> <<>>]

EmailEntry(email, primary, verified) == [email |-> email, primary |-> primary, verified |-> verified]

EmailsResponse(status, body, entries) == [kind |-> "response", status |-> status, body |-> body, entries |-> entries]

\* the identity an adapter hands to OAuthProfile(...): email_verified is
\* "True", "False" or "None"
NoKwargs == [provider_user_id |-> None, email |-> None, email_verified |-> None]

\* the id member of GitHub's /user object: a number, or absent
NoId == [present |-> FALSE, n |-> 0]

Id(n) == [present |-> TRUE, n |-> n]

\* ------------------------------------------------------------------ requests

\* the Authorization header of a request: its scheme and, for Bearer, the
\* JWT after it (the key it was signed with, its type and sub claims,
\* whether its exp has passed)
NoHeader == [scheme |-> None, key |-> None, type |-> None, sub |-> None, expired |-> FALSE]

Bearer(key, type, sub, expired) == [scheme |-> "Bearer", key |-> key, type |-> type, sub |-> sub, expired |-> expired]

\* core/security.py decode_token: jwt.decode with the secret
decode_token(token, secret_key) ==
    CASE token.key # secret_key -> "invalid_token"
      [] token.expired -> "expired"
      [] OTHER -> "ok"

IdleReq ==
    [pc |-> "idle", op |-> None, caller |-> None, provider |-> None,
     redirect_uri |-> None, mode |-> None, code_verifier |-> None, state |-> NoToken,
     at |-> 0, state_check |-> None, profile |-> NoProfile,
     user |-> None, row |-> NoRow, remaining |-> 0, created_user |-> FALSE,
     called |-> FALSE, wrote |-> FALSE, conflict |-> FALSE, emitted |-> <<>>,
     users0 |-> {}, accounts0 |-> {},
     auth |-> NoHeader, code_challenge |-> None, listing |-> <<>>,
     oauth_tokens |-> OAuthTokens(None, None, None),
     plaintext |-> None, key |-> None, origin |-> Null, encrypted |-> Null, decrypted |-> None,
     token_response |-> NoResponse, profile_response |-> NoResponse,
     exception |-> None, details |-> EmptyPayload, jwks |-> NoJwks,
     emails_response |-> NoEmails, kwargs |-> NoKwargs,
     adapter |-> [f \in {"client_id", "client_secret", "team_id", "key_id", "private_key"} |-> None], use_cache |-> TRUE,
     requires_2fa |-> FALSE, access_type |-> None, refresh |-> FALSE,
     status |-> 0, detail |-> None]

Respond(rec, status, detail) ==
    [rec EXCEPT !.pc = "done", !.status = status, !.detail = detail]

\* the lowest free request slot
FreeSlot == CHOOSE r \in Reqs : req[r].pc = "idle" /\ \A q \in Reqs : req[q].pc = "idle" => r <= q

CanStart == nreq < MaxRequests /\ \E r \in Reqs : req[r].pc = "idle"

\* a handler's first step: it either answers at once or occupies a slot
Start(rec, status, detail, pc) ==
    /\ nreq' = nreq + 1
    /\ IF status = 0
       THEN /\ req' = [req EXCEPT ![FreeSlot] = [rec EXCEPT !.pc = pc]]
            /\ UNCHANGED last
       ELSE /\ last' = Respond(rec, status, detail)
            /\ UNCHANGED req

\* a later step answers: the slot is freed
Finish(r, rec, status, detail) ==
    /\ req' = [req EXCEPT ![r] = IdleReq]
    /\ last' = Respond(rec, status, detail)

Goto(r, rec, pc) ==
    /\ req' = [req EXCEPT ![r] = [rec EXCEPT !.pc = pc]]
    /\ UNCHANGED last

\* a state string whose payload the client has altered: the signature no
\* longer matches
Tampered(s) == [s EXCEPT !.mode = "login", !.link_user_id = None, !.key = OtherKey]

\* tokens signed with the state key by other code (jwt.encode called
\* directly): one made for another purpose, with another type claim or
\* none, and an oauth_state of mode link that names no user
OtherPurpose(s) == {[s EXCEPT !.type = ty] : ty \in {"access", None}}
LinkWithoutUser(s) == {[s EXCEPT !.mode = "link", !.link_user_id = u] : u \in {None, ""}}

\* the bodies a client holding state s sends to callback or link: the one the
\* flow prescribes, and those that depart from it in one field
Bodies(s) ==
    LET flow == [provider |-> s.provider, state |-> s, redirect_uri |-> s.redirect_uri, code_verifier |-> "v1"]
    IN  {[flow EXCEPT !.provider = p] : p \in PathProviders}
          \cup {[flow EXCEPT !.redirect_uri = ru] : ru \in RequestRedirects}
          \cup {[flow EXCEPT !.code_verifier = cv] : cv \in Verifiers}
          \cup {[flow EXCEPT !.state = Tampered(s)]}
          \cup {[flow EXCEPT !.state = x] : x \in OtherPurpose(s)}

\* ------------------------------------------------------------------ configuration
\* core/config.py.  config.social_login is features["social_login"];
\* config.creds[p] holds the oauth_<p>_* settings, None when unset

CredentialFields == {"client_id", "client_secret", "team_id", "key_id", "private_key"}

NoCreds == [f \in CredentialFields |-> None]

\* the settings a provider's adapter is built from
RequiredFields(provider) ==
    IF provider = "apple" THEN {"client_id", "team_id", "key_id", "private_key"}
    ELSE {"client_id", "client_secret"}

\* the complete credential set of provider as tenant t has it
Credentials(provider, t) == [f \in CredentialFields |-> IF f \in RequiredFields(provider) THEN t ELSE None]

\* the configuration the flows above run with: google and github listed and
\* complete, apple neither
DefaultConfig ==
    [social_login |-> Providers,
     creds |-> [p \in KnownProviders |-> IF p \in Providers THEN Credentials(p, "A") ELSE NoCreds],
     oauth_token_encryption_key |-> "ek1"]

\* AuthConfig._provider_has_credentials
_provider_has_credentials(provider) ==
    CASE provider \in {"google", "github"} ->
            ~Falsy(config.creds[provider].client_id) /\ ~Falsy(config.creds[provider].client_secret)
      [] provider = "apple" ->
            /\ ~Falsy(config.creds[provider].client_id) /\ ~Falsy(config.creds[provider].team_id)
            /\ ~Falsy(config.creds[provider].key_id) /\ ~Falsy(config.creds[provider].private_key)
      [] OTHER -> FALSE

\* AuthConfig.get_social_providers
get_social_providers == config.social_login

\* AuthConfig.get_social_provider_info: one dict for each of the three
\* providers, in this order, enabled or not
get_social_provider_info ==
    [i \in 1..3 |->
        LET provider == <<"google", "github", "apple">>[i]
        IN  [kind |-> "dict", name |-> provider,
             enabled |-> provider \in get_social_providers /\ _provider_has_credentials(provider)]]

\* _require_enabled_provider: the detail of the HTTP 400 it raises, or None
_require_enabled_provider(provider) ==
    LET info == {get_social_provider_info[i] : i \in {j \in 1..3 : get_social_provider_info[j].name = Lower(provider)}}
    IN  CASE info = {} -> "provider_not_enabled"
          [] \E x \in info : ~x.enabled -> "provider_not_configured"
          [] OTHER -> None

\* ------------------------------------------------------------------ provider factory
\* services/oauth/providers/factory.py.  An adapter is the credentials its
\* constructor was given; NoAdapter marks a name the cache has no entry for.

PROVIDER_REGISTRY == {"google", "github", "apple"}

NoAdapter == NoCreds

\* provider_class(client_id=..., ...): the adapter built from creds
NewAdapter(name, creds) == [f \in CredentialFields |-> IF f \in RequiredFields(name) THEN creds[f] ELSE None]

\* get_provider(provider_name, config=cfg, use_cache=use_cache) with the
\* module's cache as it stands: the ValueError or the adapter returned, and
\* the cache afterwards
get_provider_use_cache(provider_name, cfg, cache, use_cache) ==
    LET name == Lower(provider_name)
        failed == [error |-> "ValueError", adapter |-> NoAdapter, cache |-> cache]
    IN  CASE name \notin PROVIDER_REGISTRY -> failed
          [] use_cache /\ cache[name] # NoAdapter -> [error |-> None, adapter |-> cache[name], cache |-> cache]
          [] Falsy(cfg.creds[name].client_id) -> failed
          [] name = "apple" /\ \E f \in {"team_id", "key_id", "private_key"} : Falsy(cfg.creds[name][f]) -> failed
          [] name # "apple" /\ Falsy(cfg.creds[name].client_secret) -> failed
          [] OTHER -> [error |-> None,
                       adapter |-> NewAdapter(name, cfg.creds[name]),
                       cache |-> IF use_cache THEN [cache EXCEPT ![name] = NewAdapter(name, cfg.creds[name])]
                                 ELSE cache]

\* get_provider(provider_name, config=cfg), as the handlers call it
get_provider(provider_name, cfg, cache) == get_provider_use_cache(provider_name, cfg, cache, TRUE)

EmptyCache == [p \in PROVIDER_REGISTRY |-> NoAdapter]

\* the cache once every provider of DefaultConfig has served a request
WarmCache == [p \in PROVIDER_REGISTRY |-> IF p \in Providers THEN NewAdapter(p, DefaultConfig.creds[p]) ELSE NoAdapter]

\* ------------------------------------------------------------------ providers listing

\* OAuthProvidersResponse(providers=...), schemas/oauth.py: the field is
\* List[str], and pydantic raises ValidationError for an item that is not a
\* string
OAuthProvidersResponse_error(providers) ==
    \E i \in DOMAIN providers : providers[i].kind # "str"

\* GET /oauth/providers
GetProviders ==
    LET providers == get_social_provider_info
        rec == [IdleReq EXCEPT !.op = "get_providers", !.at = now]
    IN  /\ CanStart
        /\ nreq' = nreq + 1
        /\ last' = IF OAuthProvidersResponse_error(providers)
                   THEN Respond(rec, 500, "ValidationError")
                   ELSE Respond([rec EXCEPT !.listing = providers], 200, None)
        /\ UNCHANGED <<now, users, passkeys, accounts, minted, tokens, issued, req, config, _provider_cache, environ, _jwks_cache, _jwks_cached_at, served, _encryption_instance>>

\* ------------------------------------------------------------------ authorize

\* the bearer check accepting a token of any type
link_auth_any_type(authorization) ==
    CASE authorization.scheme # "Bearer" ->
            [status |-> 401, detail |-> "authentication_required", sub |-> None]
      [] decode_token(authorization, JwtSecret) # "ok" ->
            [status |-> 401, detail |-> "invalid_token", sub |-> None]
      [] OTHER -> [status |-> 0, detail |-> None, sub |-> authorization.sub]

\* lines 136-158: the caller of a link-mode authorize, from the Authorization
\* header: status 401, or 0 and the token's sub
link_auth(authorization) ==
    CASE authorization.scheme # "Bearer" ->
            [status |-> 401, detail |-> "authentication_required", sub |-> None]
      [] decode_token(authorization, JwtSecret) # "ok" ->
            [status |-> 401, detail |-> "invalid_token", sub |-> None]
      [] authorization.type # "access" ->
            [status |-> 401, detail |-> "invalid_token", sub |-> None]
      [] OTHER -> [status |-> 0, detail |-> None, sub |-> authorization.sub]

\* authorize's checks, in order: [status, detail], status 200 when it mints
authorize_checks(provider, redirect_uri, mode, authorization) ==
    CASE _require_enabled_provider(provider) # None ->
            [status |-> 400, detail |-> _require_enabled_provider(provider)]
      [] mode = "link" /\ link_auth(authorization).status # 0 ->
            [status |-> 401, detail |-> link_auth(authorization).detail]
      [] get_provider(provider, config, _provider_cache).error # None ->
            [status |-> 500, detail |-> "provider_init_failed"]
      [] sign_state_error(Lower(provider), redirect_uri, mode, IF mode = "link" THEN link_auth(authorization).sub ELSE None) # None ->
            [status |-> 500, detail |-> "ValueError"]
      [] OTHER -> [status |-> 200, detail |-> None]

\* POST /oauth/{provider}/authorize
Authorize(provider, redirect_uri, code_challenge, mode, authorization) ==
    LET chk == authorize_checks(provider, redirect_uri, mode, authorization)
        link_user_id == IF mode = "link" THEN link_auth(authorization).sub ELSE None
        state == sign_state(Lower(provider), redirect_uri, mode, SigningKey, code_challenge, link_user_id, oauth_state_expiry_seconds, minted + 1, now)
        rec == [IdleReq EXCEPT !.op = "authorize", !.provider = Lower(provider), !.redirect_uri = redirect_uri,
                               !.mode = mode, !.auth = authorization, !.code_challenge = code_challenge, !.at = now]
    IN  /\ CanStart
        /\ chk.status = 200 => minted < MaxTokens
        /\ nreq' = nreq + 1
        /\ IF chk.status = 200
           THEN /\ minted' = minted + 1
                /\ tokens' = tokens \cup {state}
                /\ issued' = issued \cup {SignCall(minted + 1, now, oauth_state_expiry_seconds, Lower(provider), redirect_uri, mode, code_challenge, link_user_id)}
                /\ last' = Respond([rec EXCEPT !.state = state, !.caller = link_user_id], 200, None)
           ELSE /\ UNCHANGED <<minted, tokens, issued>>
                /\ last' = Respond(rec, chk.status, chk.detail)
        /\ _provider_cache' = IF chk.status \in {200, 500}
                              THEN get_provider(provider, config, _provider_cache).cache
                              ELSE _provider_cache
        /\ UNCHANGED <<now, users, passkeys, accounts, req, config, environ, _jwks_cache, _jwks_cached_at, served, _encryption_instance>>

\* ------------------------------------------------------------------ callback

\* callback without the check of the state's mode (lines 241-246)
callback_checks_no_mode(provider, state, redirect_uri, code_verifier, t) ==
    LET sc == verify_state_for_callback(state, SigningKey, Lower(provider), redirect_uri, t)
        pk == _verify_pkce_binding(state, code_verifier)
    IN  CASE _require_enabled_provider(provider) # None ->
                [status |-> 400, detail |-> _require_enabled_provider(provider)]
          [] sc # "ok" -> [status |-> 400, detail |-> StateErrorClass(sc)]
          [] pk = "encode_error" -> [status |-> 500, detail |-> "UnicodeEncodeError"]
          [] pk # "ok" -> [status |-> 400, detail |-> pk]
          [] OTHER -> [status |-> 0, detail |-> None]

\* callback going on to the token exchange without the PKCE binding check
callback_checks_exchange_first(provider, state, redirect_uri, code_verifier, t) ==
    LET sc == verify_state_for_callback(state, SigningKey, Lower(provider), redirect_uri, t)
    IN  CASE _require_enabled_provider(provider) # None ->
                [status |-> 400, detail |-> _require_enabled_provider(provider)]
          [] sc # "ok" -> [status |-> 400, detail |-> StateErrorClass(sc)]
          [] state.mode = "link" -> [status |-> 400, detail |-> "use_link_endpoint"]
          [] OTHER -> [status |-> 0, detail |-> None]

\* callback up to the provider call, lines 213-248: [status, detail], status 0
\* when the handler goes on to the token exchange
callback_checks(provider, state, redirect_uri, code_verifier, t) ==
    LET sc == verify_state_for_callback(state, SigningKey, Lower(provider), redirect_uri, t)
        pk == _verify_pkce_binding(state, code_verifier)
    IN  CASE _require_enabled_provider(provider) # None ->
                [status |-> 400, detail |-> _require_enabled_provider(provider)]
          [] sc # "ok" -> [status |-> 400, detail |-> StateErrorClass(sc)]
          [] state.mode = "link" -> [status |-> 400, detail |-> "use_link_endpoint"]
          [] pk = "encode_error" -> [status |-> 500, detail |-> "UnicodeEncodeError"]
          [] pk # "ok" -> [status |-> 400, detail |-> pk]
          [] OTHER -> [status |-> 0, detail |-> None]

\* what the handler has evaluated of the state when it answers or goes on
StateCheckOf(provider, state, redirect_uri, t) ==
    IF _require_enabled_provider(provider) # None THEN None
    ELSE verify_state_for_callback(state, SigningKey, Lower(provider), redirect_uri, t)

CallbackBegin(provider, state, redirect_uri, code_verifier) ==
    LET chk == callback_checks(provider, state, redirect_uri, code_verifier, now)
        rec == [IdleReq EXCEPT !.op = "callback", !.provider = Lower(provider),
                               !.redirect_uri = redirect_uri, !.code_verifier = code_verifier,
                               !.state = state, !.at = now,
                               !.state_check = StateCheckOf(provider, state, redirect_uri, now)]
        gp == get_provider(provider, config, _provider_cache)
    IN  /\ CanStart
        /\ IF chk.status = 0 /\ gp.error # None
           THEN Start(rec, 500, "provider_init_failed", "cb_exchange")
           ELSE Start(rec, chk.status, chk.detail, "cb_exchange")
        /\ _provider_cache' = IF chk.status = 0 THEN gp.cache ELSE _provider_cache
        /\ UNCHANGED <<now, users, passkeys, accounts, minted, tokens, issued, config, environ, _jwks_cache, _jwks_cached_at, served, _encryption_instance>>

\* lines 259-296: the provider call (get_user_identity), the email check, the
\* lookup of the social account by identity and of its owner
CallbackExchangeFails(r) ==
    /\ req[r].pc = "cb_exchange"
    /\ Finish(r, [req[r] EXCEPT !.called = TRUE], 400, "provider_error")
    /\ UNCHANGED <<now, users, passkeys, accounts, minted, tokens, issued, nreq, config, _provider_cache, environ, _jwks_cache, _jwks_cached_at, served, _encryption_instance>>

\* the email check left out
email_missing_never(profile) == FALSE

\* lines 272-277: the profile has no email
email_missing(profile) == Falsy(profile.email)

\* the orphaned rows left in place
without_orphan_kept(rows, found) == rows

\* lines 291-295: db.delete of the orphaned social account, committed
without_orphan(rows, found) == rows \ found

\* users0 and accounts0 keep the tables as the handler's first query saw them
CallbackExchange(r, profile, oauth_tokens) ==
    LET rec == [req[r] EXCEPT !.called = TRUE, !.profile = profile, !.oauth_tokens = oauth_tokens,
                              !.users0 = users, !.accounts0 = accounts]
        found == ByIdentity(rec.provider, profile.provider_user_id)
    IN  /\ req[r].pc = "cb_exchange"
        /\ IF email_missing(profile)
           THEN /\ Finish(r, rec, 400, "email_required")
                /\ UNCHANGED accounts
           ELSE IF found # {} /\ \E a \in found : UserById(a.user_id) # {}
           THEN /\ \E a \in found :
                     Goto(r, [rec EXCEPT !.user = a.user_id, !.row = a], "cb_finish")
                /\ UNCHANGED accounts
           ELSE IF found # {}
           THEN \* an orphaned social account: db.delete, db.commit
                /\ accounts' = without_orphan(accounts, found)
                /\ Goto(r, [rec EXCEPT !.wrote = TRUE], "cb_email")
           ELSE /\ Goto(r, rec, "cb_email")
                /\ UNCHANGED accounts
        /\ UNCHANGED <<now, users, passkeys, minted, tokens, issued, nreq, config, _provider_cache, environ, _jwks_cache, _jwks_cached_at, served, _encryption_instance>>

\* the comparison of the identities left out
different_identity_never(link, profile) == FALSE

\* line 309: the user's link under the provider is to another identity
different_identity(link, profile) == link.provider_user_id # profile.provider_user_id

\* lines 298-315: the user with the profile's email and that user's link
CallbackEmail(r) ==
    LET rec == req[r]
        byEmail == UserByEmail(rec.profile.email)
    IN  /\ rec.pc = "cb_email"
        /\ IF byEmail = {}
           THEN Goto(r, rec, "cb_newuser")
           ELSE \E u \in byEmail :
                  LET link == ByUserProvider(u.id, rec.provider)
                  IN  IF link = {}
                      THEN Goto(r, [rec EXCEPT !.user = u.id], "cb_insert")
                      ELSE \E a \in link :
                             IF different_identity(a, rec.profile)
                             THEN Finish(r, [rec EXCEPT !.user = u.id], 409, "different_account_linked")
                             ELSE Goto(r, [rec EXCEPT !.user = u.id, !.row = a], "cb_finish")
        /\ UNCHANGED <<now, users, passkeys, accounts, minted, tokens, issued, nreq, config, _provider_cache, environ, _jwks_cache, _jwks_cached_at, served, _encryption_instance>>

\* lines 641-643 and 660-665: each token that is set is replaced by
\* encrypt_token(token, encryption_key), the others keep what columns holds;
\* nonces[f] is what os.urandom returns for token f
encrypted_columns(columns, oauth_tokens, encryption_key, nonces, instance, env) ==
    LET enc == get_encryption(encryption_key, instance, env)
    IN  IF \A f \in TokenFields : Falsy(oauth_tokens[f])
        THEN [error |-> None, columns |-> columns, instance |-> instance]
        ELSE IF enc.error # None
        THEN [error |-> enc.error, columns |-> columns, instance |-> enc.instance]
        ELSE [error |-> None,
              columns |-> [f \in DOMAIN columns |->
                             IF f \notin TokenFields \/ Falsy(oauth_tokens[f]) THEN columns[f]
                             ELSE encrypt_token(oauth_tokens[f], encryption_key, nonces[f], enc.instance, env).value],
              instance |-> enc.instance]

\* _update_social_account_tokens keeping the stored refresh token only when
\* the exchange returned one
_update_social_account_tokens_overwrite(columns, oauth_tokens, encryption_key, nonces, instance, env) ==
    LET enc == encrypted_columns([columns EXCEPT !["refresh_token"] = Null], oauth_tokens, encryption_key, nonces, instance, env)
    IN  [enc EXCEPT !.columns = [f \in DOMAIN columns |->
                                   IF f \in PlainFields /\ ~Falsy(oauth_tokens[f]) THEN oauth_tokens[f]
                                   ELSE enc.columns[f]]]

\* _update_social_account_tokens, lines 656-671: each token that is set is
\* encrypted into its column, token_type, scope and expires_at are assigned
\* when set; the other columns keep their value
_update_social_account_tokens(columns, oauth_tokens, encryption_key, nonces, instance, env) ==
    LET enc == encrypted_columns(columns, oauth_tokens, encryption_key, nonces, instance, env)
    IN  [enc EXCEPT !.columns = [f \in DOMAIN columns |->
                                   IF f \in PlainFields /\ ~Falsy(oauth_tokens[f]) THEN oauth_tokens[f]
                                   ELSE enc.columns[f]]]

\* _create_social_account, lines 641-646: the token columns of the new row
created_columns(oauth_tokens, encryption_key, nonces, instance, env) ==
    LET enc == encrypted_columns(NoTokens, oauth_tokens, encryption_key, nonces, instance, env)
    IN  [enc EXCEPT !.columns = [f \in DOMAIN NoTokens |->
                                   IF f \in PlainFields THEN oauth_tokens[f] ELSE enc.columns[f]]]

\* _create_social_account: the row it adds and commits
NewRow(uid, provider, profile, columns) ==
    [id |-> NextRowId, user_id |-> uid, provider |-> provider,
     provider_user_id |-> profile.provider_user_id, tokens |-> columns]

\* lines 316-326: the insert for an existing user, IntegrityError caught
CallbackInsert(r, nonces) ==
    LET rec == req[r]
        enc == created_columns(rec.oauth_tokens, config.oauth_token_encryption_key, nonces, _encryption_instance, environ)
        row == NewRow(rec.user, rec.provider, rec.profile, enc.columns)
    IN  /\ rec.pc = "cb_insert"
        /\ _encryption_instance' = enc.instance
        /\ IF enc.error # None
           THEN /\ Finish(r, rec, 500, enc.error)
                /\ UNCHANGED accounts
           ELSE IF UniqueViolation(accounts, row)
           THEN /\ Finish(r, [rec EXCEPT !.conflict = TRUE], 409, "already_linked")
                /\ UNCHANGED accounts
           ELSE /\ accounts' = accounts \cup {row}
                /\ Goto(r, [rec EXCEPT !.row = row, !.wrote = TRUE], "cb_finish")
        /\ UNCHANGED <<now, users, passkeys, minted, tokens, issued, nreq, config, _provider_cache, environ, _jwks_cache, _jwks_cached_at, served>>

\* the id the store gives the next user row
NextUserId == CHOOSE id \in NewUserIds : \A u \in users : u.id # id /\ (id = "u3" \/ \E v \in users : v.id = "u3")

\* a new user that can log in with the password field
NewUser_with_password(id, profile) ==
    [id |-> id, email |-> profile.email, is_active |-> TRUE,
     is_verified |-> profile.email_verified,
     has_usable_password |-> TRUE, two_factor_enabled |-> FALSE, last_login_at |-> Never]

\* lines 328-335: the user row of a social signup
NewUser(id, profile) ==
    [id |-> id, email |-> profile.email, is_active |-> TRUE,
     is_verified |-> profile.email_verified,
     has_usable_password |-> FALSE, two_factor_enabled |-> FALSE, last_login_at |-> Never]

\* lines 328-339: the new user, added and committed
CallbackNewUser(r) ==
    LET rec == req[r]
        user == NewUser(NextUserId, rec.profile)
    IN  /\ rec.pc = "cb_newuser"
        /\ UserByEmail(rec.profile.email) # {} \/ Cardinality(users) < Cardinality(UserIds) + MaxNewUsers
        /\ IF UserByEmail(rec.profile.email) # {}
           THEN \* users.email is unique: db.commit raises IntegrityError, not caught
                /\ Finish(r, rec, 500, "IntegrityError_users_email")
                /\ UNCHANGED users
           ELSE /\ users' = users \cup {user}
                /\ Goto(r, [rec EXCEPT !.user = user.id, !.created_user = TRUE, !.wrote = TRUE], "cb_insert_new")
        /\ UNCHANGED <<now, passkeys, accounts, minted, tokens, issued, nreq, config, _provider_cache, environ, _jwks_cache, _jwks_cached_at, served, _encryption_instance>>

\* lines 341-351: the new user's social account; no IntegrityError handler here
CallbackInsertNew(r, nonces) ==
    LET rec == req[r]
        enc == created_columns(rec.oauth_tokens, config.oauth_token_encryption_key, nonces, _encryption_instance, environ)
        row == NewRow(rec.user, rec.provider, rec.profile, enc.columns)
    IN  /\ rec.pc = "cb_insert_new"
        /\ _encryption_instance' = enc.instance
        /\ IF enc.error # None
           THEN /\ Finish(r, rec, 500, enc.error)
                /\ UNCHANGED accounts
           ELSE IF UniqueViolation(accounts, row)
           THEN /\ Finish(r, [rec EXCEPT !.conflict = TRUE], 500, "IntegrityError")
                /\ UNCHANGED accounts
           ELSE /\ accounts' = accounts \cup {row}
                /\ Goto(r, [rec EXCEPT !.row = row, !.emitted = Append(@, "user_registered")], "cb_finish")
        /\ UNCHANGED <<now, users, passkeys, minted, tokens, issued, nreq, config, _provider_cache, environ, _jwks_cache, _jwks_cached_at, served>>

\* a refresh token issued whether or not a second factor is required
session_with_refresh(user) ==
    [requires_2fa |-> user.two_factor_enabled,
     access_type |-> IF user.two_factor_enabled THEN "2fa_temp" ELSE "access",
     refresh |-> TRUE]

\* lines 365-384: the credentials issued for user; access_type is the type
\* claim handed to create_access_token
session_for(user) ==
    [requires_2fa |-> user.two_factor_enabled,
     access_type |-> IF user.two_factor_enabled THEN "2fa_temp" ELSE "access",
     refresh |-> ~user.two_factor_enabled]

\* a disabled user let through
inactive_never(user) == FALSE

\* lines 358-359: `if not user.is_active`
inactive(user) == ~user.is_active

\* lines 353-406: the stored tokens are refreshed, then the session is issued
CallbackFinish(r, nonces) ==
    LET rec == req[r]
        stored == {a \in accounts : a.id = rec.row.id}
        \* _update_social_account_tokens: the UPDATE sets the columns assigned to
        updated(a) == _update_social_account_tokens(a.tokens, rec.oauth_tokens, config.oauth_token_encryption_key, nonces, _encryption_instance, environ)
        enc == updated(rec.row)
    IN  /\ rec.pc = "cb_finish"
        /\ _encryption_instance' = enc.instance
        /\ \E u \in UserById(rec.user) :
             IF enc.error # None
             THEN /\ Finish(r, rec, 500, enc.error)
                  /\ UNCHANGED <<users, accounts>>
             ELSE IF stored = {}
             THEN \* the row was deleted meanwhile: the UPDATE matches no row
                  /\ Finish(r, rec, 500, "StaleDataError")
                  /\ UNCHANGED <<users, accounts>>
             ELSE /\ accounts' = (accounts \ stored) \cup {[a EXCEPT !.tokens = updated(a).columns] : a \in stored}
                  /\ IF inactive(u)
                     THEN /\ Finish(r, [rec EXCEPT !.wrote = TRUE], 403, "user_disabled")
                          /\ UNCHANGED users
                     ELSE LET session == session_for(u)
                          IN  /\ users' = IF u.two_factor_enabled THEN users
                                          ELSE (users \ {u}) \cup {[u EXCEPT !.last_login_at = now]}
                              /\ Finish(r, [rec EXCEPT !.wrote = TRUE,
                                                       !.emitted = Append(@, "user_logged_in"),
                                                       !.requires_2fa = session.requires_2fa,
                                                       !.access_type = session.access_type,
                                                       !.refresh = session.refresh],
                                        200, IF session.requires_2fa THEN "requires_2fa" ELSE "tokens")
        /\ UNCHANGED <<now, passkeys, minted, tokens, issued, nreq, config, _provider_cache, environ, _jwks_cache, _jwks_cached_at, served>>

\* ------------------------------------------------------------------ link

\* link_account without the check of the state's link_user_id (lines 474-478)
link_checks_any_user(caller, provider, state, redirect_uri, code_verifier, t) ==
    LET sc == verify_state_for_callback(state, SigningKey, Lower(provider), redirect_uri, t)
        pk == _verify_pkce_binding(state, code_verifier)
    IN  CASE _require_enabled_provider(provider) # None ->
                [status |-> 400, detail |-> _require_enabled_provider(provider)]
          [] sc # "ok" -> [status |-> 400, detail |-> StateErrorClass(sc)]
          [] state.mode # "link" -> [status |-> 400, detail |-> "not_link_state"]
          [] pk = "encode_error" -> [status |-> 500, detail |-> "UnicodeEncodeError"]
          [] pk # "ok" -> [status |-> 400, detail |-> pk]
          [] ByUserProvider(caller, Lower(provider)) # {} ->
                [status |-> 400, detail |-> "provider_already_linked"]
          [] OTHER -> [status |-> 0, detail |-> None]

\* link_account without the lookup of the caller's link (lines 482-492)
link_checks_no_existing(caller, provider, state, redirect_uri, code_verifier, t) ==
    LET sc == verify_state_for_callback(state, SigningKey, Lower(provider), redirect_uri, t)
        pk == _verify_pkce_binding(state, code_verifier)
    IN  CASE _require_enabled_provider(provider) # None ->
                [status |-> 400, detail |-> _require_enabled_provider(provider)]
          [] sc # "ok" -> [status |-> 400, detail |-> StateErrorClass(sc)]
          [] state.mode # "link" -> [status |-> 400, detail |-> "not_link_state"]
          [] state.link_user_id # caller -> [status |-> 400, detail |-> "different_user"]
          [] pk = "encode_error" -> [status |-> 500, detail |-> "UnicodeEncodeError"]
          [] pk # "ok" -> [status |-> 400, detail |-> pk]
          [] OTHER -> [status |-> 0, detail |-> None]

\* link_account up to the provider call, lines 449-492: [status, detail],
\* status 0 when the handler goes on to the token exchange
link_checks(caller, provider, state, redirect_uri, code_verifier, t) ==
    LET sc == verify_state_for_callback(state, SigningKey, Lower(provider), redirect_uri, t)
        pk == _verify_pkce_binding(state, code_verifier)
    IN  CASE _require_enabled_provider(provider) # None ->
                [status |-> 400, detail |-> _require_enabled_provider(provider)]
          [] sc # "ok" -> [status |-> 400, detail |-> StateErrorClass(sc)]
          [] state.mode # "link" -> [status |-> 400, detail |-> "not_link_state"]
          [] state.link_user_id # caller -> [status |-> 400, detail |-> "different_user"]
          [] pk = "encode_error" -> [status |-> 500, detail |-> "UnicodeEncodeError"]
          [] pk # "ok" -> [status |-> 400, detail |-> pk]
          [] ByUserProvider(caller, Lower(provider)) # {} ->
                [status |-> 400, detail |-> "provider_already_linked"]
          [] OTHER -> [status |-> 0, detail |-> None]

LinkBegin(caller, provider, state, redirect_uri, code_verifier) ==
    LET chk == link_checks(caller, provider, state, redirect_uri, code_verifier, now)
        rec == [IdleReq EXCEPT !.op = "link", !.caller = caller, !.user = caller,
                               !.provider = Lower(provider),
                               !.redirect_uri = redirect_uri, !.code_verifier = code_verifier,
                               !.state = state, !.at = now,
                               !.state_check = StateCheckOf(provider, state, redirect_uri, now)]
        gp == get_provider(provider, config, _provider_cache)
    IN  /\ CanStart
        /\ caller \in ActiveUsers
        /\ IF chk.status = 0 /\ gp.error # None
           THEN Start(rec, 500, "provider_init_failed", "lk_exchange")
           ELSE Start(rec, chk.status, chk.detail, "lk_exchange")
        /\ _provider_cache' = IF chk.status = 0 THEN gp.cache ELSE _provider_cache
        /\ UNCHANGED <<now, users, passkeys, accounts, minted, tokens, issued, config, environ, _jwks_cache, _jwks_cached_at, served, _encryption_instance>>

\* lines 503-526: the provider call, then the lookup of the identity
LinkExchangeFails(r) ==
    /\ req[r].pc = "lk_exchange"
    /\ Finish(r, [req[r] EXCEPT !.called = TRUE], 400, "provider_error")
    /\ UNCHANGED <<now, users, passkeys, accounts, minted, tokens, issued, nreq, config, _provider_cache, environ, _jwks_cache, _jwks_cached_at, served, _encryption_instance>>

LinkExchange(r, profile, oauth_tokens) ==
    LET rec == [req[r] EXCEPT !.called = TRUE, !.profile = profile, !.oauth_tokens = oauth_tokens]
    IN  /\ req[r].pc = "lk_exchange"
        /\ IF ByIdentity(rec.provider, profile.provider_user_id) # {}
           THEN Finish(r, rec, 409, "linked_to_another_user")
           ELSE Goto(r, rec, "lk_insert")
        /\ UNCHANGED <<now, users, passkeys, accounts, minted, tokens, issued, nreq, config, _provider_cache, environ, _jwks_cache, _jwks_cached_at, served, _encryption_instance>>

\* lines 528-554: the insert, IntegrityError caught, then the link event
LinkInsert(r, nonces) ==
    LET rec == req[r]
        enc == created_columns(rec.oauth_tokens, config.oauth_token_encryption_key, nonces, _encryption_instance, environ)
        row == NewRow(rec.caller, rec.provider, rec.profile, enc.columns)
    IN  /\ rec.pc = "lk_insert"
        /\ _encryption_instance' = enc.instance
        /\ IF enc.error # None
           THEN /\ Finish(r, rec, 500, enc.error)
                /\ UNCHANGED accounts
           ELSE IF UniqueViolation(accounts, row)
           THEN /\ Finish(r, [rec EXCEPT !.conflict = TRUE], 409, "already_linked")
                /\ UNCHANGED accounts
           ELSE /\ accounts' = accounts \cup {row}
                /\ Finish(r, [rec EXCEPT !.row = row, !.wrote = TRUE, !.emitted = Append(@, "social_account_linked")], 200, None)
        /\ UNCHANGED <<now, users, passkeys, minted, tokens, issued, nreq, config, _provider_cache, environ, _jwks_cache, _jwks_cached_at, served>>

\* ------------------------------------------------------------------ provider adapters

OAuthProviderErrors == {"OAuthTokenExchangeError", "OAuthProfileError"}

Raised(exception, details) ==
    [exception |-> exception, details |-> details,
     tokens |-> OAuthTokens(None, None, None), profile |-> NoProfile]

ReturnedTokens(oauth_tokens) ==
    [exception |-> None, details |-> EmptyPayload, tokens |-> oauth_tokens, profile |-> NoProfile]

\* GoogleProvider.exchange_token
GoogleProvider_exchange_token(code_verifier, resp) ==
    IF Falsy(code_verifier) THEN Raised("OAuthTokenExchangeError", EmptyPayload)
    ELSE IF resp.kind = "network_error" THEN Raised("OAuthTokenExchangeError", EmptyPayload)
    ELSE IF resp.status # 200
    THEN CASE resp.body = "empty" -> Raised("OAuthTokenExchangeError", EmptyPayload)
           [] resp.body = "text" -> Raised("JSONDecodeError", EmptyPayload)
           [] OTHER -> Raised("OAuthTokenExchangeError", Payload(resp))
    ELSE IF resp.body # "json" THEN Raised("JSONDecodeError", EmptyPayload)
    ELSE IF resp.access_token = None THEN Raised("KeyError", EmptyPayload)
    ELSE ReturnedTokens(OAuthTokens(resp.access_token, resp.refresh_token, resp.id_token))

\* GitHubProvider.exchange_token
GitHubProvider_exchange_token(code_verifier, resp) ==
    IF Falsy(code_verifier) THEN Raised("OAuthTokenExchangeError", EmptyPayload)
    ELSE IF resp.kind = "network_error" THEN Raised("OAuthTokenExchangeError", EmptyPayload)
    ELSE IF resp.status # 200
    THEN CASE resp.body = "empty" -> Raised("OAuthTokenExchangeError", EmptyPayload)
           [] resp.body = "text" -> Raised("JSONDecodeError", EmptyPayload)
           [] OTHER -> Raised("OAuthTokenExchangeError", Payload(resp))
    ELSE IF resp.body # "json" THEN Raised("JSONDecodeError", EmptyPayload)
    ELSE IF resp.error # None THEN Raised("OAuthTokenExchangeError", Payload(resp))
    ELSE IF Falsy(resp.access_token) THEN Raised("OAuthTokenExchangeError", Payload(resp))
    ELSE ReturnedTokens(OAuthTokens(resp.access_token, resp.refresh_token, None))

\* AppleProvider.exchange_token; secret_error: _generate_client_secret raises
AppleProvider_exchange_token(code_verifier, resp, secret_error) ==
    IF Falsy(code_verifier) THEN Raised("OAuthTokenExchangeError", EmptyPayload)
    ELSE IF secret_error THEN Raised("OAuthTokenExchangeError", EmptyPayload)
    ELSE IF resp.kind = "network_error" THEN Raised("OAuthTokenExchangeError", EmptyPayload)
    ELSE IF resp.status # 200
    THEN CASE resp.body = "empty" -> Raised("OAuthTokenExchangeError", EmptyPayload)
           [] resp.body = "text" -> Raised("JSONDecodeError", EmptyPayload)
           [] OTHER -> Raised("OAuthTokenExchangeError", Payload(resp))
    ELSE IF resp.body # "json" THEN Raised("JSONDecodeError", EmptyPayload)
    ELSE IF resp.access_token = None THEN Raised("KeyError", EmptyPayload)
    ELSE ReturnedTokens(OAuthTokens(resp.access_token, resp.refresh_token, resp.id_token))

\* a private key that is no PEM: _generate_client_secret raises
BadPem == "bad_pem"

\* exchange_token of the adapter for provider
exchange_token(provider, adapter, code_verifier, resp) ==
    CASE provider = "google" -> GoogleProvider_exchange_token(code_verifier, resp)
      [] provider = "github" -> GitHubProvider_exchange_token(code_verifier, resp)
      [] OTHER -> AppleProvider_exchange_token(code_verifier, resp, adapter["private_key"] = BadPem)

\* the fields of the OAuthProfile dataclass
OAuthProfileFields == {"provider", "provider_user_id", "email", "username", "id_token"}

\* OAuthProfile(**kwargs): the dataclass __init__ raises TypeError for a
\* keyword that is no field
OAuthProfile(kwargs, provider_user_id, email, email_verified) ==
    IF kwargs \subseteq OAuthProfileFields
    THEN [exception |-> None, details |-> EmptyPayload, tokens |-> OAuthTokens(None, None, None),
          profile |-> [provider_user_id |-> provider_user_id, email |-> email, email_verified |-> email_verified]]
    ELSE Raised("TypeError", EmptyPayload)

\* GoogleProvider.fetch_profile, resp the answer of the userinfo endpoint
GoogleProvider_fetch_profile(oauth_tokens, resp) ==
    IF resp.kind = "network_error" THEN Raised("OAuthProfileError", EmptyPayload)
    ELSE IF resp.status # 200
    THEN CASE resp.body = "empty" -> Raised("OAuthProfileError", EmptyPayload)
           [] resp.body = "text" -> Raised("JSONDecodeError", EmptyPayload)
           [] OTHER -> Raised("OAuthProfileError", Payload(resp))
    ELSE IF resp.body # "json" THEN Raised("JSONDecodeError", EmptyPayload)
    ELSE IF Falsy(resp.sub) THEN Raised("OAuthProfileError", Payload(resp))
    ELSE OAuthProfile({"provider", "provider_user_id", "email", "username", "email_verified", "id_token"},
                      resp.sub, resp.email, resp.email_verified)

\* GitHubProvider.fetch_profile, resp the answer of /user with the primary
\* address _fetch_primary_email found, if any; str() of a missing id is "None"
GitHubProvider_fetch_profile(oauth_tokens, resp) ==
    IF resp.kind = "network_error" THEN Raised("OAuthProfileError", EmptyPayload)
    ELSE IF resp.status # 200 THEN Raised("OAuthProfileError", EmptyPayload)
    ELSE IF resp.body # "json" THEN Raised("JSONDecodeError", EmptyPayload)
    ELSE OAuthProfile({"provider", "provider_user_id", "email", "username", "email_verified"},
                      IF resp.sub = None THEN "None" ELSE resp.sub,
                      IF Falsy(resp.primary_email) THEN resp.email ELSE resp.primary_email,
                      IF Falsy(resp.primary_email) THEN FALSE ELSE resp.email_verified)

\* AppleProvider.fetch_profile, resp the answer of the JWKS endpoint and,
\* when it has the key, the claims of the verified id_token
AppleProvider_fetch_profile(oauth_tokens, resp) ==
    IF Falsy(oauth_tokens.id_token) THEN Raised("OAuthProfileError", EmptyPayload)
    ELSE IF resp.kind = "network_error" \/ resp.status # 200 \/ resp.body # "json"
    THEN Raised("OAuthProfileError", EmptyPayload)
    ELSE IF Falsy(resp.sub) THEN Raised("OAuthProfileError", Payload(resp))
    ELSE OAuthProfile({"provider", "provider_user_id", "email", "username", "email_verified", "id_token"},
                      resp.sub, resp.email, resp.email_verified)

fetch_profile(provider, oauth_tokens, resp) ==
    CASE provider = "google" -> GoogleProvider_fetch_profile(oauth_tokens, resp)
      [] provider = "github" -> GitHubProvider_fetch_profile(oauth_tokens, resp)
      [] OTHER -> AppleProvider_fetch_profile(oauth_tokens, resp)

\* ---- GitHubProvider.fetch_profile: the address and the subject

\* the position of the first entry of entries a loop over them stops at, the
\* loop stopping at the positions in found; 0 when it stops at none
First(found) == IF found = {} THEN 0 ELSE CHOOSE i \in found : \A j \in found : i <= j

PrimaryVerified(entries) == {i \in 1..Len(entries) : entries[i].primary /\ entries[i].verified}
Verified(entries) == {i \in 1..Len(entries) : entries[i].verified}
Primary(entries) == {i \in 1..Len(entries) : entries[i].primary}

\* GitHubProvider._fetch_primary_email: (email, verified), (None, None) when
\* the request fails, the status is not 200, the body is no JSON or no entry
\* is verified or primary
_fetch_primary_email(resp) ==
    IF resp.kind # "response" \/ resp.status # 200 \/ resp.body # "json"
    THEN [email |-> None, email_verified |-> "None"]
    ELSE LET pv == First(PrimaryVerified(resp.entries))
             v == First(Verified(resp.entries))
             p == First(Primary(resp.entries))
         IN  CASE pv # 0 -> [email |-> resp.entries[pv].email, email_verified |-> "True"]
               [] v # 0 -> [email |-> resp.entries[v].email, email_verified |-> "True"]
               [] p # 0 -> [email |-> resp.entries[p].email, email_verified |-> "False"]
               [] OTHER -> [email |-> None, email_verified |-> "None"]

\* Python's str() of the id member: the decimal digits, "None" for None
str(id) == IF id.present THEN ToString(id.n) ELSE "None"

\* fetch_profile, lines 194-221: the arguments OAuthProfile is called with
GitHubProvider_kwargs(id, public_email, emails_response) ==
    LET found == _fetch_primary_email(emails_response)
    IN  [provider_user_id |-> str(id),
         email |-> IF Falsy(found.email) THEN public_email ELSE found.email,
         email_verified |-> IF Falsy(found.email) THEN "None" ELSE found.email_verified]

\* the answer of /user as GitHubProvider_fetch_profile takes it: the id in
\* its string form if there is one, the address taken from the list
GitHubUser(resp, id, emails_response) ==
    LET found == _fetch_primary_email(emails_response)
    IN  [resp EXCEPT !.sub = IF id.present THEN str(id) ELSE None,
                     !.primary_email = found.email,
                     !.email_verified = found.email_verified = "True"]

\* fetch_profile called on GitHub's adapter: resp and id the answer of /user,
\* emails_response that of /user/emails
GitHubFetchProfile(oauth_tokens, resp, id, emails_response) ==
    LET out == GitHubProvider_fetch_profile(oauth_tokens, GitHubUser(resp, id, emails_response))
        reached == resp.kind = "response" /\ resp.status = 200 /\ resp.body = "json"
        rec == [IdleReq EXCEPT !.op = "fetch_profile", !.provider = "github",
                               !.oauth_tokens = oauth_tokens, !.profile_response = GitHubUser(resp, id, emails_response),
                               !.emails_response = emails_response,
                               !.kwargs = IF reached THEN GitHubProvider_kwargs(id, resp.email, emails_response) ELSE NoKwargs,
                               !.profile = out.profile,
                               !.exception = out.exception, !.details = out.details]
    IN  /\ last' = Respond(rec, IF out.exception = None THEN 200 ELSE 500, out.exception)
        /\ UNCHANGED <<now, users, passkeys, accounts, minted, tokens, issued, req, nreq, config, _provider_cache, environ, _jwks_cache, _jwks_cached_at, served, _encryption_instance>>

\* fetch_profile called on Google's or Apple's adapter
FetchProfile(provider, oauth_tokens, resp) ==
    LET out == fetch_profile(provider, oauth_tokens, resp)
        reached == out.exception \in {None, "TypeError"}
        rec == [IdleReq EXCEPT !.op = "fetch_profile", !.provider = provider,
                               !.oauth_tokens = oauth_tokens, !.profile_response = resp,
                               !.kwargs = IF reached
                                          THEN [provider_user_id |-> resp.sub, email |-> resp.email,
                                                email_verified |-> IF resp.email_verified THEN "True" ELSE "False"]
                                          ELSE NoKwargs,
                               !.profile = out.profile,
                               !.exception = out.exception, !.details = out.details]
    IN  /\ provider \in {"google", "apple"}
        /\ last' = Respond(rec, IF out.exception = None THEN 200 ELSE 500, out.exception)
        /\ UNCHANGED <<now, users, passkeys, accounts, minted, tokens, issued, req, nreq, config, _provider_cache, environ, _jwks_cache, _jwks_cached_at, served, _encryption_instance>>

\* OAuthProvider.get_user_identity: exchange_token, then fetch_profile
get_user_identity(provider, adapter, code_verifier, token_response, profile_response) ==
    LET exchanged == exchange_token(provider, adapter, code_verifier, token_response)
        fetched == fetch_profile(provider, exchanged.tokens, profile_response)
    IN  IF exchanged.exception # None THEN exchanged
        ELSE [fetched EXCEPT !.tokens = exchanged.tokens]

\* exchange_token called on the adapter of provider
ExchangeToken(provider, code_verifier, token_response) ==
    LET out == exchange_token(provider, _provider_cache[provider], code_verifier, token_response)
        rec == [IdleReq EXCEPT !.op = "exchange_token", !.provider = provider,
                               !.code_verifier = code_verifier, !.token_response = token_response,
                               !.oauth_tokens = out.tokens,
                               !.exception = out.exception, !.details = out.details]
    IN  /\ last' = Respond(rec, IF out.exception = None THEN 200 ELSE 500, out.exception)
        /\ UNCHANGED <<now, users, passkeys, accounts, minted, tokens, issued, req, nreq, config, _provider_cache, environ, _jwks_cache, _jwks_cached_at, served, _encryption_instance>>

\* callback, lines 259-270: the call of the adapter; an OAuthProviderError is
\* answered 400, any other exception leaves the handler
CallbackIdentity(r, token_response, profile_response) ==
    LET rec == [req[r] EXCEPT !.token_response = token_response, !.profile_response = profile_response]
        out == get_user_identity(rec.provider, _provider_cache[rec.provider], rec.code_verifier, token_response, profile_response)
    IN  /\ req[r].pc = "cb_exchange"
        /\ IF out.exception \in OAuthProviderErrors
           THEN /\ Finish(r, [rec EXCEPT !.called = TRUE, !.exception = out.exception, !.details = out.details], 400, "provider_error")
                /\ UNCHANGED <<now, users, passkeys, accounts, minted, tokens, issued, nreq, config, _provider_cache, environ, _jwks_cache, _jwks_cached_at, served, _encryption_instance>>
           ELSE IF out.exception # None
           THEN /\ Finish(r, [rec EXCEPT !.called = TRUE, !.exception = out.exception], 500, out.exception)
                /\ UNCHANGED <<now, users, passkeys, accounts, minted, tokens, issued, nreq, config, _provider_cache, environ, _jwks_cache, _jwks_cached_at, served, _encryption_instance>>
           ELSE CallbackExchange(r, out.profile, out.tokens)

\* link_account, lines 503-515
LinkIdentity(r, token_response, profile_response) ==
    LET rec == [req[r] EXCEPT !.token_response = token_response, !.profile_response = profile_response]
        out == get_user_identity(rec.provider, _provider_cache[rec.provider], rec.code_verifier, token_response, profile_response)
    IN  /\ req[r].pc = "lk_exchange"
        /\ IF out.exception \in OAuthProviderErrors
           THEN /\ Finish(r, [rec EXCEPT !.called = TRUE, !.exception = out.exception, !.details = out.details], 400, "provider_error")
                /\ UNCHANGED <<now, users, passkeys, accounts, minted, tokens, issued, nreq, config, _provider_cache, environ, _jwks_cache, _jwks_cached_at, served, _encryption_instance>>
           ELSE IF out.exception # None
           THEN /\ Finish(r, [rec EXCEPT !.called = TRUE, !.exception = out.exception], 500, out.exception)
                /\ UNCHANGED <<now, users, passkeys, accounts, minted, tokens, issued, nreq, config, _provider_cache, environ, _jwks_cache, _jwks_cached_at, served, _encryption_instance>>
           ELSE LinkExchange(r, out.profile, out.tokens)

\* ---- AppleProvider._get_apple_jwks

\* lines 263: the cached JWKS is used, whatever its age
jwks_fresh_no_ttl(cache, cached_at, t) == cache.present

\* lines 263: the cached JWKS is used while it was stored less than the ttl ago
jwks_fresh(cache, cached_at, t) ==
    cache.present /\ (t - cached_at) < jwks_cache_ttl_seconds * TicksPerSecond

\* lines 266-289: what the answer of the JWKS endpoint leads to: the exception
\* raised, or the dict to cache and return
jwks_fetched(resp) ==
    CASE resp.kind = "network_error" -> [exception |-> "OAuthProfileError", jwks |-> NoJwks]
      [] resp.status # 200 -> [exception |-> "OAuthProfileError", jwks |-> NoJwks]
      [] resp.body = "text" -> [exception |-> "JSONDecodeError", jwks |-> NoJwks]
      [] resp.body = "json_list" -> [exception |-> "AttributeError", jwks |-> NoJwks]
      [] resp.keys = {} -> [exception |-> "OAuthProfileError", jwks |-> NoJwks]
      [] OTHER -> [exception |-> None, jwks |-> Jwks(resp.keys)]

\* a response of the JWKS endpoint with status 200 and a JSON object as body:
\* keys is empty when the object has no keys or an empty list of them
JwksResponse(keys) == [Response(200, "json") EXCEPT !.keys = keys]

\* the call up to its network request: the time is read, and the cached dict
\* is returned if it is fresh
GetAppleJwksBegin ==
    LET rec == [IdleReq EXCEPT !.op = "_get_apple_jwks", !.provider = "apple", !.at = now]
    IN  /\ CanStart
        /\ IF jwks_fresh(_jwks_cache, _jwks_cached_at, now)
           THEN Start([rec EXCEPT !.jwks = _jwks_cache], 200, None, "done")
           ELSE Start([rec EXCEPT !.called = TRUE], 0, None, "jwks_fetch")
        /\ UNCHANGED <<now, users, passkeys, accounts, minted, tokens, issued, config, _provider_cache, environ, _encryption_instance, _jwks_cache, _jwks_cached_at, served>>

\* the call from the answer of the endpoint on: the keys are stored under the
\* time read at the start of the call and returned, or the call raises
GetAppleJwksEnd(r, resp) ==
    LET rec == [req[r] EXCEPT !.profile_response = resp]
        out == jwks_fetched(resp)
    IN  /\ req[r].pc = "jwks_fetch"
        /\ served' = IF resp.kind = "response" /\ resp.status = 200 /\ resp.body = "json"
                     THEN served \cup {[keys |-> resp.keys, at |-> now]}
                     ELSE served
        /\ IF out.exception # None
           THEN /\ Finish(r, [rec EXCEPT !.exception = out.exception], 500, out.exception)
                /\ UNCHANGED <<_jwks_cache, _jwks_cached_at>>
           ELSE /\ _jwks_cache' = out.jwks
                /\ _jwks_cached_at' = rec.at
                /\ Finish(r, [rec EXCEPT !.jwks = out.jwks], 200, None)
        /\ UNCHANGED <<now, users, passkeys, accounts, minted, tokens, issued, nreq, config, _provider_cache, environ, _encryption_instance>>

\* ------------------------------------------------------------------ unlink

\* the count taken without discounting the account being removed
remaining_auth_methods_before_removal(social_count, passkey_count, has_password) ==
    social_count + passkey_count + (IF has_password THEN 1 ELSE 0)

\* lines 598-602: the authentication methods left after the removal
remaining_auth_methods(social_count, passkey_count, has_password) ==
    (social_count - 1) + passkey_count + (IF has_password THEN 1 ELSE 0)

\* lines 569-609: the row is looked up and the methods are counted
UnlinkBegin(caller, provider) ==
    LET found == ByUserProvider(caller, Lower(provider))
        rec == [IdleReq EXCEPT !.op = "unlink", !.caller = caller, !.user = caller,
                               !.provider = Lower(provider)]
    IN  /\ CanStart
        /\ caller \in ActiveUsers
        /\ IF found = {}
           THEN Start(rec, 404, "not_linked", "idle")
           ELSE \E a \in found, u \in UserById(caller) :
                  LET remaining == remaining_auth_methods(SocialCount(caller), passkeys[caller], u.has_usable_password)
                      rec2 == [rec EXCEPT !.row = a, !.remaining = remaining]
                  IN  IF remaining = 0
                      THEN Start(rec2, 400, "lockout", "idle")
                      ELSE Start(rec2, 0, None, "ul_delete")
        /\ UNCHANGED <<now, users, passkeys, accounts, minted, tokens, issued, config, _provider_cache, environ, _jwks_cache, _jwks_cached_at, served, _encryption_instance>>

\* lines 611-621: db.delete, db.commit, then the unlink event
UnlinkDelete(r) ==
    LET rec == req[r]
    IN  /\ rec.pc = "ul_delete"
        /\ accounts' = {a \in accounts : a.id # rec.row.id}
        /\ Finish(r, [rec EXCEPT !.wrote = TRUE, !.emitted = Append(@, "social_account_unlinked")], 200, None)
        /\ UNCHANGED <<now, users, passkeys, minted, tokens, issued, nreq, config, _provider_cache, environ, _jwks_cache, _jwks_cached_at, served, _encryption_instance>>

\* ------------------------------------------------------------------ system

Tick ==
    /\ now < MaxTime
    /\ now' = now + 1
    /\ UNCHANGED <<users, passkeys, accounts, minted, tokens, issued, req, nreq, last, config, _provider_cache, environ, _jwks_cache, _jwks_cached_at, served, _encryption_instance>>

\* a whole second passes
TickSecond ==
    /\ now + TicksPerSecond <= MaxTime
    /\ now' = now + TicksPerSecond
    /\ UNCHANGED <<users, passkeys, accounts, minted, tokens, issued, req, nreq, last, config, _provider_cache, environ, _jwks_cache, _jwks_cached_at, served, _encryption_instance>>

InitUsers ==
    { [id |-> "u1", email |-> "a@x", is_active |-> TRUE, is_verified |-> TRUE,
       has_usable_password |-> TRUE, two_factor_enabled |-> FALSE, last_login_at |-> Never],
      [id |-> "u2", email |-> "b@x", is_active |-> TRUE, is_verified |-> TRUE,
       has_usable_password |-> FALSE, two_factor_enabled |-> FALSE, last_login_at |-> Never] }

\* the links present from the start: u2 signed up with google/p1
InitAccountSets ==
    { { [id |-> 1, user_id |-> "u2", provider |-> "google", provider_user_id |-> "p1", tokens |-> EarlierTokens] },
      { [id |-> 1, user_id |-> "u2", provider |-> "google", provider_user_id |-> "p1", tokens |-> EarlierTokens],
        [id |-> 2, user_id |-> "u2", provider |-> "github", provider_user_id |-> "p2", tokens |-> EarlierTokens] } }

InitPasskeys ==
    {[id \in UserIds \cup NewUserIds |-> IF id = "u2" THEN k ELSE 0] : k \in 0..1}

\* the states handed out by earlier authorize requests and not yet expired
InitTokens ==
    { sign_state("google", "r1", "login", SigningKey, "c1", None, oauth_state_expiry_seconds, 1, 0),
      sign_state("google", "r1", "link", SigningKey, "c1", "u1", oauth_state_expiry_seconds, 2, 0),
      sign_state("github", "r1", "link", SigningKey, "c1", "u2", oauth_state_expiry_seconds, 3, 0) }

\* ---- the flows over the store: well-formed requests, run concurrently

Init ==
    /\ now = 0
    /\ users = InitUsers
    /\ passkeys \in InitPasskeys
    /\ accounts \in InitAccountSets
    /\ minted = Cardinality(InitTokens)
    /\ tokens = InitTokens
    /\ issued = {SignCall(s.nonce, 0, oauth_state_expiry_seconds, s.provider, s.redirect_uri, s.mode, s.cc, s.link_user_id) : s \in InitTokens}
    /\ req = [r \in Reqs |-> IdleReq]
    /\ nreq = 0
    /\ last = IdleReq
    /\ config = DefaultConfig
    /\ _provider_cache = WarmCache
    /\ environ = None
    /\ _encryption_instance = NoInstance
    /\ _jwks_cache = NoJwks
    /\ _jwks_cached_at = 0
    /\ served = {}

\* the tokens of a token exchange: access and refresh token
Grant == OAuthTokens("at1", "rt1", None)

\* what os.urandom returns for the three tokens of one write
Nonces(values) == [TokenFields -> values]

\* the handlers' later steps, the provider answering with one of profiles
\* and one of grants, os.urandom with one of nonces
StepsWith(profiles, grants, nonces) ==
    \/ \E r \in Reqs : CallbackExchangeFails(r)
    \/ \E r \in Reqs, pf \in profiles, tk \in grants : CallbackExchange(r, pf, tk)
    \/ \E r \in Reqs : CallbackEmail(r)
    \/ \E r \in Reqs, n \in nonces : CallbackInsert(r, n)
    \/ \E r \in Reqs : CallbackNewUser(r)
    \/ \E r \in Reqs, n \in nonces : CallbackInsertNew(r, n)
    \/ \E r \in Reqs, n \in nonces : CallbackFinish(r, n)
    \/ \E r \in Reqs : LinkExchangeFails(r)
    \/ \E r \in Reqs, pf \in profiles, tk \in grants : LinkExchange(r, pf, tk)
    \/ \E r \in Reqs, n \in nonces : LinkInsert(r, n)

Steps(profiles) == StepsWith(profiles, {Grant}, Nonces({"n1"}))

Next ==
    \/ \E s \in tokens : CallbackBegin(s.provider, s, s.redirect_uri, "v1")
    \/ \E s \in tokens : LinkBegin(s.link_user_id, s.provider, s, s.redirect_uri, "v1")
    \/ \E c \in UserIds \cup NewUserIds, p \in Providers : UnlinkBegin(c, p)
    \/ \E r \in Reqs : UnlinkDelete(r)
    \/ Steps(Profiles)

Spec == Init /\ [][Next]_vars

\* ---- the entry checks: any request body, tokens minted by authorize, time

InitGate ==
    /\ now = 0
    /\ users = InitUsers
    /\ passkeys = [id \in UserIds \cup NewUserIds |-> 0]
    /\ accounts = {[id |-> 1, user_id |-> "u2", provider |-> "google", provider_user_id |-> "p1", tokens |-> EarlierTokens]}
    /\ minted = 0
    /\ tokens = {}
    /\ issued = {}
    /\ req = [r \in Reqs |-> IdleReq]
    /\ nreq = 0
    /\ last = IdleReq
    /\ config = DefaultConfig
    /\ _provider_cache = WarmCache
    /\ environ = None
    /\ _encryption_instance = NoInstance
    /\ _jwks_cache = NoJwks
    /\ _jwks_cached_at = 0
    /\ served = {}

\* no Authorization header, or the access token of a user
GateHeaders == {NoHeader} \cup {Bearer(JwtSecret, "access", u, FALSE) : u \in UserIds}

GateProfiles ==
    { [provider_user_id |-> "p1", email |-> "b@x", email_verified |-> TRUE],
      [provider_user_id |-> "p2", email |-> "a@x", email_verified |-> TRUE],
      [provider_user_id |-> "p2", email |-> "n@x", email_verified |-> TRUE] }

NextGate ==
    \/ TickSecond
    \/ \E p \in PathProviders, ru \in Redirects \cup {""}, m \in {"login", "link"}, h \in GateHeaders :
          Authorize(p, ru, "c1", m, h)
    \/ \E s \in tokens : \E b \in Bodies(s) :
          CallbackBegin(b.provider, b.state, b.redirect_uri, b.code_verifier)
    \/ \E c \in UserIds, s \in tokens : \E b \in Bodies(s) :
          LinkBegin(c, b.provider, b.state, b.redirect_uri, b.code_verifier)
    \/ Steps(GateProfiles)

SpecGate == InitGate /\ [][NextGate]_vars

\* ---- the login and link flows one request at a time, over stores that hold
\* ---- disabled users, users with two-factor enabled and orphaned links

Quiet == \A r \in Reqs : req[r].pc = "idle"

LoginUserSets ==
    { { [id |-> "u1", email |-> "a@x", is_active |-> TRUE, is_verified |-> TRUE,
         has_usable_password |-> TRUE, two_factor_enabled |-> FALSE, last_login_at |-> Never],
        [id |-> "u2", email |-> "b@x", is_active |-> act, is_verified |-> TRUE,
         has_usable_password |-> FALSE, two_factor_enabled |-> tfa, last_login_at |-> Never] }
      : act \in BOOLEAN, tfa \in BOOLEAN }

\* u0 is the id of a user whose row is gone
LoginAccountSets ==
    LET g1 == [id |-> 1, user_id |-> "u2", provider |-> "google", provider_user_id |-> "p1", tokens |-> EarlierTokens]
        orphan == [id |-> 2, user_id |-> "u0", provider |-> "google", provider_user_id |-> "p2", tokens |-> EarlierTokens]
    IN  { {g1}, {g1, orphan}, {orphan}, {} }

LoginTokens ==
    { sign_state("google", "r1", "login", SigningKey, "c1", None, oauth_state_expiry_seconds, 1, 0),
      sign_state("github", "r1", "login", SigningKey, "c1", None, oauth_state_expiry_seconds, 2, 0),
      sign_state("google", "r1", "link", SigningKey, "c1", "u1", oauth_state_expiry_seconds, 3, 0) }

InitLogin ==
    /\ now = 0
    /\ users \in LoginUserSets
    /\ passkeys = [id \in UserIds \cup NewUserIds |-> 0]
    /\ accounts \in LoginAccountSets
    /\ minted = Cardinality(LoginTokens)
    /\ tokens = LoginTokens
    /\ issued = {SignCall(s.nonce, 0, oauth_state_expiry_seconds, s.provider, s.redirect_uri, s.mode, s.cc, s.link_user_id) : s \in LoginTokens}
    /\ req = [r \in Reqs |-> IdleReq]
    /\ nreq = 0
    /\ last = IdleReq
    /\ config = DefaultConfig
    /\ _provider_cache = WarmCache
    /\ environ = None
    /\ _encryption_instance = NoInstance
    /\ _jwks_cache = NoJwks
    /\ _jwks_cached_at = 0
    /\ served = {}

NextLogin ==
    \/ Quiet /\ TickSecond
    \/ Quiet /\ \E s \in {t \in tokens : t.mode = "login"} :
                   CallbackBegin(s.provider, s, s.redirect_uri, "v1")
    \/ Quiet /\ \E s \in {t \in tokens : t.mode = "link"} :
                   LinkBegin(s.link_user_id, s.provider, s, s.redirect_uri, "v1")
    \/ Steps(Profiles)

SpecLogin == InitLogin /\ [][NextLogin]_vars

\* ---- the provider gate: any configuration, each endpoint once or twice

\* a provider's settings: complete, one required setting unset, or the
\* client id set to the empty string
CredVariants(provider) ==
    {Credentials(provider, "A"), [Credentials(provider, "A") EXCEPT !["client_id"] = ""]}
      \cup {[Credentials(provider, "A") EXCEPT ![f] = None] : f \in RequiredFields(provider)}

Configs ==
    { [social_login |-> sl,
       creds |-> [p \in KnownProviders |-> CASE p = "google" -> g [] p = "github" -> h [] OTHER -> a],
       oauth_token_encryption_key |-> "ek1"]
      : sl \in SUBSET KnownProviders, g \in CredVariants("google"),
        h \in {Credentials("github", "A"), NoCreds}, a \in CredVariants("apple") }

\* the provider path parameters of the requests, facebook being no provider
ConfigPaths == {"google", "GitHub", "apple", "facebook"}

\* states signed earlier, while their provider was usable
ConfigTokens ==
    { sign_state("google", "r1", "login", SigningKey, "c1", None, oauth_state_expiry_seconds, 11, 0),
      sign_state("apple", "r1", "login", SigningKey, "c1", None, oauth_state_expiry_seconds, 12, 0),
      sign_state("github", "r1", "link", SigningKey, "c1", "u1", oauth_state_expiry_seconds, 13, 0),
      sign_state("apple", "r1", "link", SigningKey, "c1", "u1", oauth_state_expiry_seconds, 14, 0) }

InitConfig ==
    /\ now = 0
    /\ users = InitUsers
    /\ passkeys = [id \in UserIds \cup NewUserIds |-> 0]
    /\ accounts = {[id |-> 1, user_id |-> "u2", provider |-> "google", provider_user_id |-> "p1", tokens |-> EarlierTokens]}
    /\ minted = 0
    /\ tokens = ConfigTokens
    /\ issued = {SignCall(s.nonce, 0, oauth_state_expiry_seconds, s.provider, s.redirect_uri, s.mode, s.cc, s.link_user_id) : s \in ConfigTokens}
    /\ req = [r \in Reqs |-> IdleReq]
    /\ nreq = 0
    /\ last = IdleReq
    /\ config \in Configs
    /\ _provider_cache = EmptyCache
    /\ environ = None
    /\ _encryption_instance = NoInstance
    /\ _jwks_cache = NoJwks
    /\ _jwks_cached_at = 0
    /\ served = {}

\* the state a client sends with a request for the provider of path p
StatesFor(p, mode) == {s \in tokens : s.mode = mode /\ (s.provider = Lower(p) \/ Lower(p) \notin KnownProviders)}

NextConfig ==
    \/ GetProviders
    \/ \E p \in ConfigPaths : Authorize(p, "r1", "c1", "login", NoHeader)
    \/ \E p \in ConfigPaths : \E s \in StatesFor(p, "login") : CallbackBegin(p, s, s.redirect_uri, "v1")
    \/ \E p \in ConfigPaths : \E s \in StatesFor(p, "link") : LinkBegin(s.link_user_id, p, s, s.redirect_uri, "v1")
    \/ \E r \in Reqs : CallbackExchangeFails(r)
    \/ \E r \in Reqs : LinkExchangeFails(r)

SpecConfig == InitConfig /\ [][NextConfig]_vars

\* ---- authorize on its own: every kind of Authorization header

\* what a client puts in the Authorization header: nothing, another scheme,
\* a user's access token, a token signed with another key, tokens of another
\* type or of none, an expired access token, an access token without sub
AuthHeaders ==
    {NoHeader, [NoHeader EXCEPT !.scheme = "Basic"]}
      \cup {Bearer(JwtSecret, "access", u, FALSE) : u \in UserIds}
      \cup {Bearer(OtherKey, "access", "u1", FALSE),
            Bearer(JwtSecret, "2fa_temp", "u1", FALSE),
            Bearer(JwtSecret, None, "u1", FALSE),
            Bearer(JwtSecret, "access", "u1", TRUE),
            Bearer(JwtSecret, "access", None, FALSE)}

CodeChallenges == {"c1", "c2"}

\* the requests sent to authorize: provider, redirect_uri, code_challenge,
\* mode and Authorization header; every header in both modes, and for a
\* user's access token every provider, redirect_uri and code challenge
AuthorizeRequests ==
    ({"google"} \X {"r1"} \X {"c1"} \X {"login", "link"} \X AuthHeaders)
      \cup (PathProviders \X (Redirects \cup {""}) \X CodeChallenges \X {"login", "link"} \X {Bearer(JwtSecret, "access", "u2", FALSE)})

NextAuthorize ==
    \E a \in AuthorizeRequests : Authorize(a[1], a[2], a[3], a[4], a[5])

SpecAuthorize == InitGate /\ [][NextAuthorize]_vars

\* ---- the token columns: any encryption key setting, each grant, the
\* ---- requests one at a time

StorageConfigs == {[DefaultConfig EXCEPT !.oauth_token_encryption_key = k] : k \in {None, EncryptionKey}}

StorageEnvirons == {None, EnvEncryptionKey, BadKey}

\* an access token alone; all three tokens with scope and expiry; an empty
\* refresh token and an empty scope
StorageGrants ==
    { OAuthTokens("at1", None, None),
      Granted(OAuthTokens("at1", "rt1", "it1"), "Bearer", "s1", "e1"),
      Granted(OAuthTokens("at1", "", None), "bearer", "", None) }

StorageProfiles ==
    { [provider_user_id |-> "p1", email |-> "b@x", email_verified |-> TRUE],
      [provider_user_id |-> "p2", email |-> "n@x", email_verified |-> TRUE] }

\* what os.urandom returns during one write: twelve fresh bytes at each call
StorageNonces ==
    { [f \in TokenFields |-> CASE f = "access_token" -> "n1" [] f = "refresh_token" -> "n2" [] OTHER -> "n3"],
      [f \in TokenFields |-> CASE f = "access_token" -> "n4" [] f = "refresh_token" -> "n5" [] OTHER -> "n6"] }

InitStorage ==
    /\ now = 0
    /\ users = InitUsers
    /\ passkeys = [id \in UserIds \cup NewUserIds |-> 0]
    /\ accounts = {[id |-> 1, user_id |-> "u2", provider |-> "google", provider_user_id |-> "p1", tokens |-> EarlierTokens]}
    /\ minted = Cardinality(LoginTokens)
    /\ tokens = LoginTokens
    /\ issued = {SignCall(s.nonce, 0, oauth_state_expiry_seconds, s.provider, s.redirect_uri, s.mode, s.cc, s.link_user_id) : s \in LoginTokens}
    /\ req = [r \in Reqs |-> IdleReq]
    /\ nreq = 0
    /\ last = IdleReq
    /\ config \in StorageConfigs
    /\ _provider_cache = WarmCache
    /\ environ \in StorageEnvirons
    /\ _encryption_instance = NoInstance
    /\ _jwks_cache = NoJwks
    /\ _jwks_cached_at = 0
    /\ served = {}

NextStorage ==
    \/ Quiet /\ \E s \in {t \in tokens : t.mode = "login"} :
                   CallbackBegin(s.provider, s, s.redirect_uri, "v1")
    \/ Quiet /\ \E s \in {t \in tokens : t.mode = "link"} :
                   LinkBegin(s.link_user_id, s.provider, s, s.redirect_uri, "v1")
    \/ StepsWith(StorageProfiles, StorageGrants, StorageNonces)

SpecStorage == InitStorage /\ [][NextStorage]_vars

\* ---- the state token codec on its own: sign_state and verify_state called
\* ---- directly, the clock advancing in ticks

SignState(provider, redirect_uri, mode, code_challenge, link_user_id, expiry_seconds) ==
    LET err == sign_state_error(provider, redirect_uri, mode, link_user_id)
        state == sign_state(provider, redirect_uri, mode, SigningKey, code_challenge, link_user_id, expiry_seconds, minted + 1, now)
        \* caller holds the link_user_id argument
        rec == [IdleReq EXCEPT !.op = "sign_state", !.at = now, !.provider = provider,
                               !.redirect_uri = redirect_uri, !.mode = mode, !.caller = link_user_id]
    IN  /\ IF err # None
           THEN /\ last' = Respond(rec, 500, err)
                /\ UNCHANGED <<minted, tokens, issued>>
           ELSE /\ minted < MaxTokens
                /\ minted' = minted + 1
                /\ tokens' = tokens \cup {state}
                /\ issued' = issued \cup {SignCall(minted + 1, now, expiry_seconds, provider, redirect_uri, mode, code_challenge, link_user_id)}
                /\ last' = Respond([rec EXCEPT !.state = state], 200, None)
        /\ UNCHANGED <<now, users, passkeys, accounts, req, nreq, config, _provider_cache, environ, _jwks_cache, _jwks_cached_at, served, _encryption_instance>>

VerifyState(state, expected_provider, expected_redirect_uri, expected_mode) ==
    LET outcome == verify_state(state, SigningKey, expected_provider, expected_redirect_uri, expected_mode, now)
        rec == [IdleReq EXCEPT !.op = "verify_state", !.at = now, !.state = state,
                               !.provider = expected_provider, !.redirect_uri = expected_redirect_uri,
                               !.mode = expected_mode, !.state_check = outcome]
    IN  /\ last' = Respond(rec, IF outcome = "ok" THEN 200 ELSE 400, StateErrorClass(outcome))
        /\ UNCHANGED <<now, users, passkeys, accounts, minted, tokens, issued, req, nreq, config, _provider_cache, environ, _jwks_cache, _jwks_cached_at, served, _encryption_instance>>

InitState ==
    /\ now = 0
    /\ users = InitUsers
    /\ passkeys = [id \in UserIds \cup NewUserIds |-> 0]
    /\ accounts = {}
    /\ minted = 0
    /\ tokens = {}
    /\ issued = {}
    /\ req = [r \in Reqs |-> IdleReq]
    /\ nreq = 0
    /\ last = IdleReq
    /\ config = DefaultConfig
    /\ _provider_cache = WarmCache
    /\ environ = None
    /\ _encryption_instance = NoInstance
    /\ _jwks_cache = NoJwks
    /\ _jwks_cached_at = 0
    /\ served = {}

\* what verify_state is handed: the tokens sign_state returned, altered ones,
\* and tokens other code signed with the same key
Presented ==
    tokens \cup {Tampered(t) : t \in tokens}
           \cup UNION {OtherPurpose(t) : t \in tokens}
           \cup UNION {LinkWithoutUser(t) : t \in tokens}

\* the arguments sign_state is called with: provider, redirect_uri, mode,
\* code_challenge, link_user_id, expiry_seconds
SignArgs ==
    ({"google"} \X {"r1"} \X {"login", "link"} \X {"c1", None} \X {"u1", None, ""} \X (0..MaxTtl))
      \cup {<<"", "r1", "login", "c1", None, 1>>,
            <<"google", "", "login", "c1", None, 1>>,
            <<"google", "r1", "other", "c1", None, 1>>}

\* the expected_provider, expected_redirect_uri and expected_mode verify_state
\* is called with: none, those of the callback, or one of them alone
Expectations ==
    {<<None, None, None>>, <<"google", "r1", None>>}
      \cup {<<p, None, None>> : p \in {"google", "github"}}
      \cup {<<None, ru, None>> : ru \in {"r1", "r2"}}
      \cup {<<None, None, m>> : m \in {"login", "link"}}

NextState ==
    \/ Tick
    \/ \E a \in SignArgs : SignState(a[1], a[2], a[3], a[4], a[5], a[6])
    \/ \E s \in Presented, e \in Expectations : VerifyState(s, e[1], e[2], e[3])

SpecState == InitState /\ [][NextState]_vars

\* ---- verify_state on its own, handed tokens whose payload another holder of
\* ---- the key built: a required claim left out, a mode that is no mode

\* s with one of the claims verify_state requires left out
MissingClaim(s) == {[s EXCEPT ![f] = None] : f \in {"provider", "redirect_uri", "mode"}}

\* s with a mode other than login and link, and s in link mode for no user
Malformed(s) == MissingClaim(s) \cup {[s EXCEPT !.mode = "other"]} \cup LinkWithoutUser(s)

\* the arguments the tokens are signed with
VerifySignArgs == {<<"google", "r1", "login", "c1", None, 1>>, <<"google", "r1", "link", "c1", "u1", 0>>}

\* the expected values verify_state is called with
VerifyExpectations == ({None, "google", "github"} \X {None, "r1", "r2"} \X {None, "login", "link"})

NextVerify ==
    \/ Tick
    \/ \E a \in VerifySignArgs : SignState(a[1], a[2], a[3], a[4], a[5], a[6])
    \/ \E s \in Presented \cup UNION {Malformed(t) : t \in tokens}, e \in VerifyExpectations :
          VerifyState(s, e[1], e[2], e[3])

SpecVerify == InitState /\ [][NextVerify]_vars

\* ---- the provider adapters: every kind of answer of the token and profile
\* ---- endpoints, to exchange_token called directly and to callback and link

\* all three providers usable, Apple's private key loading or not
AdapterConfigs ==
    { [social_login |-> KnownProviders,
       creds |-> [p \in KnownProviders |->
                    IF p = "apple" THEN [Credentials(p, "A") EXCEPT !["private_key"] = k]
                    ELSE Credentials(p, "A")],
       oauth_token_encryption_key |-> EncryptionKey] : k \in {"A", BadPem} }

AdapterTokens ==
    { sign_state("google", "r1", "login", SigningKey, "c1", None, oauth_state_expiry_seconds, 1, 0),
      sign_state("github", "r1", "login", SigningKey, "c1", None, oauth_state_expiry_seconds, 2, 0),
      sign_state("apple", "r1", "login", SigningKey, "c1", None, oauth_state_expiry_seconds, 3, 0),
      sign_state("github", "r1", "link", SigningKey, "c1", "u1", oauth_state_expiry_seconds, 4, 0),
      sign_state("apple", "r1", "link", SigningKey, "c1", "u1", oauth_state_expiry_seconds, 5, 0) }

\* the answers of the token endpoint: none, an error status with a JSON
\* error, with an HTML page, with no body; 200 with a JSON error, with an
\* error next to an access token, with no access token, with text that is
\* no JSON, with the tokens
TokenResponses ==
    { NetworkError,
      [Response(400, "json") EXCEPT !.error = "invalid_grant"],
      Response(502, "text"),
      Response(500, "empty"),
      [Response(200, "json") EXCEPT !.error = "invalid_grant"],
      [Response(200, "json") EXCEPT !.error = "invalid_grant", !.access_token = "at1"],
      Response(200, "json"),
      Response(200, "text"),
      [Response(200, "json") EXCEPT !.access_token = "at1"],
      [Response(200, "json") EXCEPT !.access_token = "at1", !.refresh_token = "rt1", !.id_token = "it1"] }

\* the answers of the profile endpoint (for Apple: of the JWKS endpoint, with
\* the claims of the id_token)
ProfileResponses ==
    { NetworkError,
      [Response(401, "json") EXCEPT !.error = "invalid_token"],
      Response(502, "text"),
      Response(200, "text"),
      [Response(200, "json") EXCEPT !.email = "n@x"],
      [Response(200, "json") EXCEPT !.sub = "p2", !.email = "n@x", !.email_verified = TRUE],
      [Response(200, "json") EXCEPT !.sub = "p2", !.primary_email = "n@x", !.email_verified = TRUE] }

\* the answers one call of get_user_identity meets: each token answer, and
\* after the two with tokens each profile answer
IdentityAnswers ==
    (TokenResponses \X {NetworkError})
      \cup ({tr \in TokenResponses : tr.status = 200 /\ tr.access_token # None /\ tr.error = None} \X ProfileResponses)

InitAdapter ==
    /\ now = 0
    /\ users = InitUsers
    /\ passkeys = [id \in UserIds \cup NewUserIds |-> 0]
    /\ accounts = {[id |-> 1, user_id |-> "u2", provider |-> "google", provider_user_id |-> "p1", tokens |-> EarlierTokens]}
    /\ minted = Cardinality(AdapterTokens)
    /\ tokens = AdapterTokens
    /\ issued = {SignCall(s.nonce, 0, oauth_state_expiry_seconds, s.provider, s.redirect_uri, s.mode, s.cc, s.link_user_id) : s \in AdapterTokens}
    /\ req = [r \in Reqs |-> IdleReq]
    /\ nreq = 0
    /\ last = IdleReq
    /\ config \in AdapterConfigs
    /\ _provider_cache = [p \in PROVIDER_REGISTRY |-> NewAdapter(p, config.creds[p])]
    /\ environ = None
    /\ _encryption_instance = NoInstance
    /\ _jwks_cache = NoJwks
    /\ _jwks_cached_at = 0
    /\ served = {}

NextAdapter ==
    \/ \E p \in KnownProviders, cv \in {"v1", ""}, tr \in TokenResponses : ExchangeToken(p, cv, tr)
    \/ \E s \in {t \in tokens : t.mode = "login"} : CallbackBegin(s.provider, s, s.redirect_uri, "v1")
    \/ \E s \in {t \in tokens : t.mode = "link"} : LinkBegin(s.link_user_id, s.provider, s, s.redirect_uri, "v1")
    \/ \E r \in Reqs, a \in IdentityAnswers : CallbackIdentity(r, a[1], a[2])
    \/ \E r \in Reqs, a \in IdentityAnswers : LinkIdentity(r, a[1], a[2])

SpecAdapter == InitAdapter /\ [][NextAdapter]_vars

\* ---- Apple's JWKS cache: concurrent calls of _get_apple_jwks on one adapter,
\* ---- every kind of answer of the endpoint, the clock advancing

JwksResponses ==
    {NetworkError, Response(500, "empty"), Response(200, "text"), Response(200, "json_list")}
      \cup {JwksResponse(k) : k \in {{}, {"kid1"}, {"kid1", "kid2"}}}

NextJwks ==
    \/ Tick
    \/ GetAppleJwksBegin
    \/ \E r \in Reqs, resp \in JwksResponses : GetAppleJwksEnd(r, resp)

SpecJwks == InitState /\ [][NextJwks]_vars

\* ---- fetch_profile called directly: every kind of answer of the profile
\* ---- endpoints, every short list of addresses of GitHub's /user/emails

MaxEmails == 2      \* longest list of entries /user/emails answers with

\* the addresses of the entries, in the order of the list
Addresses == <<"a@x", "b@x", "c@x">>

\* the entries the i-th place of a list may hold: its address, or none
EmailEntries(i) == {EmailEntry(e, p, v) : e \in {Addresses[i], None}, p \in BOOLEAN, v \in BOOLEAN}

EmailLists == UNION {{l \in [1..n -> UNION {EmailEntries(i) : i \in 1..n}] : \A i \in 1..n : l[i] \in EmailEntries(i)} : n \in 0..MaxEmails}

EmailsResponses ==
    {[NoEmails EXCEPT !.kind = "network_error"], EmailsResponse(403, "json", <<>>), EmailsResponse(200, "text", <<>>)}
      \cup {EmailsResponse(200, "json", l) : l \in EmailLists}

\* the answers of GitHub's /user: no answer, an error status, text that is no
\* JSON, an object with or without a public address
GitHubUserResponses ==
    {NetworkError, [Response(401, "json") EXCEPT !.error = "bad_credentials"], Response(200, "text")}
      \cup {[Response(200, "json") EXCEPT !.email = e] : e \in {None, "pub@x"}}

GitHubIds == {NoId, Id(42)}

\* the answers of Google's userinfo endpoint, and the claims of Apple's
\* id_token with the answer of the JWKS endpoint
SubjectResponses ==
    {NetworkError, Response(502, "text"), [Response(401, "json") EXCEPT !.error = "invalid_token"]}
      \cup {[Response(200, "json") EXCEPT !.sub = s, !.email = e, !.email_verified = v] :
               s \in {None, "", "p1", "p2"}, e \in {None, "n@x"}, v \in BOOLEAN}

ProfileGrants == {OAuthTokens("at1", None, None), OAuthTokens("at1", "rt1", "idt1")}

NextProfile ==
    \/ \E resp \in GitHubUserResponses, id \in GitHubIds, emails_response \in EmailsResponses :
          GitHubFetchProfile(OAuthTokens("at1", None, None), resp, id, emails_response)
    \/ \E provider \in {"google", "apple"}, oauth_tokens \in ProfileGrants, resp \in SubjectResponses :
          FetchProfile(provider, oauth_tokens, resp)

SpecProfile == InitState /\ [][NextProfile]_vars

\* ---- the provider factory on its own: get_provider called for one tenant's
\* ---- configuration after another's

Tenants == {"A", "B"}

\* each tenant's configuration, and one of tenant A without Google's secret
FactoryConfigs ==
    { [social_login |-> KnownProviders,
       creds |-> [p \in KnownProviders |-> Credentials(p, t)],
       oauth_token_encryption_key |-> EncryptionKey] : t \in Tenants }
      \cup { [social_login |-> KnownProviders,
              creds |-> [p \in KnownProviders |->
                           IF p = "google" THEN [Credentials(p, "A") EXCEPT !["client_secret"] = None]
                           ELSE Credentials(p, "A")],
              oauth_token_encryption_key |-> EncryptionKey] }

\* get_provider(provider_name, config=cfg, use_cache=use_cache)
GetProvider(provider_name, cfg, use_cache) ==
    LET gp == get_provider_use_cache(provider_name, cfg, _provider_cache, use_cache)
        rec == [IdleReq EXCEPT !.op = "get_provider", !.provider = Lower(provider_name),
                               !.use_cache = use_cache, !.adapter = gp.adapter, !.exception = gp.error]
    IN  /\ config' = cfg
        /\ _provider_cache' = gp.cache
        /\ last' = Respond(rec, IF gp.error = None THEN 200 ELSE 500, gp.error)
        /\ UNCHANGED <<now, users, passkeys, accounts, minted, tokens, issued, req, nreq, environ, _jwks_cache, _jwks_cached_at, served, _encryption_instance>>

\* clear_provider_cache
ClearProviderCache ==
    /\ _provider_cache' = EmptyCache
    /\ last' = Respond([IdleReq EXCEPT !.op = "clear_provider_cache"], 200, None)
    /\ UNCHANGED <<now, users, passkeys, accounts, minted, tokens, issued, req, nreq, config, environ, _jwks_cache, _jwks_cached_at, served, _encryption_instance>>

InitFactory ==
    /\ now = 0
    /\ users = InitUsers
    /\ passkeys = [id \in UserIds \cup NewUserIds |-> 0]
    /\ accounts = {}
    /\ minted = 0
    /\ tokens = {}
    /\ issued = {}
    /\ req = [r \in Reqs |-> IdleReq]
    /\ nreq = 0
    /\ last = IdleReq
    /\ config \in FactoryConfigs
    /\ _provider_cache = EmptyCache
    /\ environ = None
    /\ _encryption_instance = NoInstance
    /\ _jwks_cache = NoJwks
    /\ _jwks_cached_at = 0
    /\ served = {}

NextFactory ==
    \/ \E p \in ConfigPaths, cfg \in FactoryConfigs, uc \in BOOLEAN : GetProvider(p, cfg, uc)
    \/ ClearProviderCache

SpecFactory == InitFactory /\ [][NextFactory]_vars

\* ---- the token cipher on its own: encrypt and decrypt called directly, the
\* ---- stored string altered in between

CipherKeys == {EncryptionKey, OtherEncryptionKey, None}
CipherPlaintexts == {"", "t", "token", None}
CipherNonces == {"n1", "n2"}

\* encrypt called on an instance holding key; origin keeps what it returned
Encrypt(plaintext, key, nonce) ==
    LET out == encrypt(plaintext, key, nonce)
        rec == [IdleReq EXCEPT !.op = "encrypt", !.plaintext = plaintext, !.key = key,
                               !.origin = out.value, !.encrypted = out.value]
    IN  /\ last' = Respond(rec, IF out.error = None THEN 200 ELSE 500, out.error)
        /\ UNCHANGED <<now, users, passkeys, accounts, minted, tokens, issued, req, nreq, config, _provider_cache, environ, _jwks_cache, _jwks_cached_at, served, _encryption_instance>>

\* what a stored envelope e can be changed into: another or no prefix, a
\* character outside the base64 alphabet that breaks the padding, a text
\* that decodes to the same bytes, the bytes cut down to part of the nonce,
\* to the nonce alone or to less than a tag after it, a byte of the nonce
\* changed, a byte of the ciphertext or the tag changed
Alterations(e) ==
    { [e EXCEPT !.prefix = "v2:"], [e EXCEPT !.prefix = ""],
      [e EXCEPT !.form = "invalid"],
      [e EXCEPT !.form = "lenient"],
      [e EXCEPT !.length = 8, !.nonce = "n_cut", !.box = NoBox],
      [e EXCEPT !.length = NONCE_LENGTH, !.box = NoBox],
      [e EXCEPT !.length = NONCE_LENGTH + 8, !.box = [e.box EXCEPT !.intact = FALSE]],
      [e EXCEPT !.nonce = "n_changed"],
      [e EXCEPT !.box = [e.box EXCEPT !.intact = FALSE]] }

\* the stored string is altered
Alter(altered) ==
    /\ last.op = "encrypt" /\ last.status = 200 /\ last.encrypted # Null
    /\ last' = [last EXCEPT !.op = "alter", !.encrypted = altered]
    /\ UNCHANGED <<now, users, passkeys, accounts, minted, tokens, issued, req, nreq, config, _provider_cache, environ, _jwks_cache, _jwks_cached_at, served, _encryption_instance>>

\* decrypt called on an instance holding key, with the string at hand
Decrypt(key) ==
    LET out == decrypt(last.encrypted, key)
        rec == [IdleReq EXCEPT !.op = "decrypt", !.plaintext = last.plaintext, !.key = key,
                               !.origin = last.origin, !.encrypted = last.encrypted,
                               !.decrypted = out.value]
    IN  /\ last.op \in {"encrypt", "alter"}
        /\ last' = Respond(rec, IF out.error = None THEN 200 ELSE 500, out.error)
        /\ UNCHANGED <<now, users, passkeys, accounts, minted, tokens, issued, req, nreq, config, _provider_cache, environ, _jwks_cache, _jwks_cached_at, served, _encryption_instance>>

NextCipher ==
    \/ \E s \in CipherPlaintexts, k \in CipherKeys, n \in CipherNonces : Encrypt(s, k, n)
    \/ \E e \in Alterations(last.encrypted) : Alter(e)
    \/ \E k \in CipherKeys : Decrypt(k)

SpecCipher == InitState /\ [][NextCipher]_vars

\* ------------------------------------------------------------------ claims

\* the requests there is something to say about: those being handled and the
\* one answered last
InFlight == {req[r] : r \in {q \in Reqs : req[q].pc # "idle"}}
Recs == InFlight \cup {last}

HasPassword(uid) == \E u \in users : u.id = uid /\ u.has_usable_password

\* C1: an unlink request of a caller who has a link for the provider and for
\* whom (links - 1) + passkeys + (1 if password) is 0 is answered 400
\* (lockout) in that step: no row is deleted, no handler is left running and
\* no event is emitted.
C1_UnlinkLockoutRejected ==
    [][\A c \in UserIds \cup NewUserIds, p \in Providers :
          ( /\ UnlinkBegin(c, p)
            /\ ByUserProvider(c, p) # {}
            /\ (SocialCount(c) - 1) + passkeys[c] + (IF HasPassword(c) THEN 1 ELSE 0) = 0 )
          => /\ last'.op = "unlink" /\ last'.caller = c /\ last'.provider = p
             /\ last'.status = 400 /\ last'.detail = "lockout"
             /\ last'.emitted = <<>>
             /\ accounts' = accounts /\ users' = users /\ req' = req]_vars

C1_Witness ==
    /\ last.op = "unlink" /\ last.status = 400 /\ last.detail = "lockout"
    /\ last.remaining = 0 /\ last.row \in accounts

\* C2: no user whose unlink request succeeded is left with no social
\* account, no passkey and no usable password.
C2_UnlinkNeverStrands ==
    \A u \in users :
        (last.op = "unlink" /\ last.status = 200 /\ last.caller = u.id)
        => ~(SocialCount(u.id) = 0 /\ passkeys[u.id] = 0 /\ ~u.has_usable_password)

\* C3: no two social account rows share (provider, provider_user_id) and no
\* two share (user_id, provider).
C3_AccountsUnique ==
    \A a, b \in accounts :
        a # b => /\ ~(a.provider = b.provider /\ a.provider_user_id = b.provider_user_id)
                 /\ ~(a.user_id = b.user_id /\ a.provider = b.provider)

\* an insert was refused by a uniqueness constraint and two callers hold links
C3_Witness ==
    /\ last.conflict
    /\ \E a, b \in accounts : a.user_id # b.user_id

C5_TokenSingleUse ==
    [][\A r \in Reqs :
          (req[r].pc = "idle" /\ req'[r].pc # "idle" /\ req'[r].op \in {"callback", "link"})
          => ~\E x \in Recs : /\ x.op \in {"callback", "link"}
                              /\ x.state_check = "ok"
                              /\ x.state = req'[r].state]_vars

\* C5 as amended: verification does not consume a state token.  A token
\* minted by authorize whose provider and redirect_uri agree with the request passes
\* verification exactly while the current whole second is not past its exp,
\* however often it has been verified before; presented later it is answered
\* 400 with the expired error, before any provider call or store change.
C5_TokenValidUntilExpiry ==
    \A x \in Recs :
        (x.op \in {"callback", "link"} /\ x.state_check # None /\ x.state \in tokens)
        => /\ (x.state.provider = x.provider /\ x.state.redirect_uri = x.redirect_uri)
                => (x.state_check = "ok" <=> Seconds(x.at) <= x.state.exp)
           /\ x.state_check = "ok" => Seconds(x.at) <= x.state.exp
           /\ Seconds(x.at) > x.state.exp
                => /\ x.state_check = "expired" /\ x.pc = "done"
                   /\ x.status = 400 /\ x.detail = "OAuthStateExpiredError"
                   /\ ~x.called /\ ~x.wrote

\* two requests are being handled that both verified the same token
C5_Witness ==
    \E r, q \in Reqs :
        /\ r # q /\ req[r].pc # "idle" /\ req[q].pc # "idle"
        /\ req[r].state = req[q].state
        /\ req[r].state_check = "ok" /\ req[q].state_check = "ok"

\* C6: a callback or link whose state names another provider or another
\* redirect_uri than the request is answered 400 and goes no further.
C6_StateMatchesRequest ==
    \A x \in Recs :
        ( /\ x.op \in {"callback", "link"} /\ x.state_check # None
          /\ (x.state.provider # x.provider \/ x.state.redirect_uri # x.redirect_uri) )
        => /\ x.pc = "done" /\ x.status = 400
           /\ ~x.called /\ ~x.wrote

\* C7: the provider is called only when the state has a cc equal to
\* base64url(SHA256(code_verifier)); a verified state of the right mode with
\* no cc or another cc is answered 400, with no provider call or store change.
S256(v) == IF v = "v1" THEN "c1" ELSE "c2"

C7_PkceBinding ==
    \A x \in Recs :
        (x.op \in {"callback", "link"} /\ x.state_check # None)
        => /\ (x.called \/ x.pc \notin {"done", "idle"})
                => x.state.cc # None /\ S256(x.code_verifier) = x.state.cc
           /\ ( /\ x.state_check = "ok"
                /\ (x.op = "callback" => x.state.mode # "link")
                /\ (x.op = "link" => x.state.mode = "link" /\ x.state.link_user_id = x.caller)
                /\ (x.state.cc = None \/ S256(x.code_verifier) # x.state.cc) )
                => /\ x.pc = "done" /\ x.status = 400
                   /\ ~x.called /\ ~x.wrote

\* C8: callback answers 400 to every verified state of mode link, link_account
\* answers 400 to every verified state of another mode; neither goes further.
C8_NoModeConfusion ==
    \A x \in Recs :
        ( /\ x.state_check = "ok"
          /\ \/ x.op = "callback" /\ x.state.mode = "link"
             \/ x.op = "link" /\ x.state.mode # "link" )
        => /\ x.pc = "done" /\ x.status = 400
           /\ ~x.called /\ ~x.wrote /\ x.emitted = <<>>

C8_Witness ==
    /\ last.op = "callback" /\ last.state_check = "ok" /\ last.state.mode = "link"
    /\ last.status = 400 /\ last.detail = "use_link_endpoint"

\* C9: link_account answers 400 to a verified link-mode state minted for
\* another user than the caller and creates no social account.
C9_LinkOnlyForStateUser ==
    \A x \in Recs :
        ( /\ x.op = "link" /\ x.state_check = "ok" /\ x.state.mode = "link"
          /\ x.state.link_user_id # x.caller )
        => /\ x.pc = "done" /\ x.status = 400
           /\ ~x.called /\ ~x.wrote /\ x.emitted = <<>>

C9_Witness ==
    /\ last.op = "link" /\ last.state_check = "ok" /\ last.state.mode = "link"
    /\ last.state.link_user_id \in UserIds /\ last.caller \in UserIds
    /\ last.state.link_user_id # last.caller
    /\ last.status = 400 /\ last.detail = "different_user"

\* C10: a state signed at time t with ttl d carries iat = t and exp = t + d
\* (in the token's whole seconds), and verify_state at any time after t + d
\* fails with the expired error.
C10_ExpiredAfterTtl ==
    \A g \in issued :
        (last.op = "verify_state" /\ last.state.nonce = g.nonce /\ last.state.key = SigningKey)
        => /\ last.state.iat = Seconds(g.at)
           /\ last.state.exp = Seconds(g.at + g.ttl * TicksPerSecond)
           /\ last.at > g.at + g.ttl * TicksPerSecond
                => /\ last.state_check = "expired"
                   /\ last.detail = "OAuthStateExpiredError"

\* C11 as claimed: verify_state answers every token signed with the state key
\* whose type claim is absent or not oauth_state with OAuthStateInvalidError,
\* whatever its other claims.
C11_WrongTypeIsInvalidError ==
    (last.op = "verify_state" /\ last.state.key = SigningKey /\ last.state.type # "oauth_state")
    => last.detail = "OAuthStateInvalidError"

\* C11 as amended: such a token is never accepted; it is answered with
\* OAuthStateInvalidError while the current whole second is not past its exp
\* and with OAuthStateExpiredError afterwards.
C11_WrongTypeNeverAccepted ==
    (last.op = "verify_state" /\ last.state.key = SigningKey /\ last.state.type # "oauth_state")
    => /\ last.state_check # "ok" /\ last.status = 400
       /\ Seconds(last.at) <= last.state.exp => last.detail = "OAuthStateInvalidError"
       /\ Seconds(last.at) > last.state.exp => last.detail = "OAuthStateExpiredError"

\* a token made for another purpose, otherwise acceptable, has been refused
C11_Witness ==
    /\ last.op = "verify_state" /\ last.state.key = SigningKey
    /\ last.state.type = "access" /\ last.state.mode = "login"
    /\ last.provider = last.state.provider /\ last.redirect_uri = last.state.redirect_uri
    /\ Seconds(last.at) <= last.state.exp
    /\ last.status = 400 /\ last.detail = "OAuthStateInvalidError"

\* C12: sign_state with mode link and no link_user_id raises and returns no
\* token; verify_state answers every unexpired oauth_state token signed with
\* the key whose mode is link and whose link_user_id is absent or empty with
\* OAuthStateMissingFieldError.
C12_LinkNeedsUser ==
    [][ /\ ( /\ last'.op = "sign_state" /\ last'.mode = "link"
             /\ Falsy(last'.caller) )
           => /\ last'.status = 500 /\ last'.state = NoToken
              /\ tokens' = tokens /\ minted' = minted /\ issued' = issued
        /\ ( /\ last'.op = "verify_state" /\ last'.state.key = SigningKey
             /\ last'.state.type = "oauth_state" /\ last'.state.mode = "link"
             /\ Falsy(last'.state.link_user_id)
             /\ Seconds(last'.at) <= last'.state.exp )
           => /\ last'.status = 400
              /\ last'.detail = "OAuthStateMissingFieldError" ]_vars

C12_Witness ==
    /\ last.op = "verify_state" /\ last.state.key = SigningKey
    /\ last.state.type = "oauth_state" /\ last.state.mode = "link"
    /\ last.state.link_user_id = "" /\ last.state.provider = "google"
    /\ Seconds(last.at) <= last.state.exp
    /\ last.state_check = "missing_link_user_id"

\* C13: verify_state, with the same key and before expiry, of the token
\* sign_state returned for provider P, redirect_uri R, mode M, code challenge C
\* and user id U is accepted and yields type oauth_state, provider P,
\* redirect_uri R, mode M, cc C, and link_user_id U when M is link.
C13_RoundTrip ==
    \A g \in issued :
        ( /\ last.op = "verify_state" /\ last.state \in tokens
          /\ last.state.nonce = g.nonce
          /\ Seconds(last.at) <= last.state.exp
          /\ last.provider = None /\ last.redirect_uri = None /\ last.mode = None )
        => /\ last.state_check = "ok" /\ last.status = 200
           /\ last.state.type = "oauth_state"
           /\ last.state.provider = g.provider
           /\ last.state.redirect_uri = g.redirect_uri
           /\ last.state.mode = g.mode
           /\ last.state.cc = g.code_challenge
           /\ g.mode = "link" => last.state.link_user_id = g.link_user_id

C13_Witness ==
    /\ last.op = "verify_state" /\ last.state \in tokens
    /\ last.state_check = "ok" /\ last.status = 200
    /\ last.mode = None /\ last.provider = None /\ last.redirect_uri = None
    /\ last.state.mode = "link" /\ last.state.link_user_id = "u1"
    /\ last.state.cc = "c1"

\* ---- callback's outcome against the tables its first query saw

\* the last request was a callback the provider answered with a profile, and
\* no request has started since
CallbackDone == Quiet /\ last.op = "callback" /\ last.profile # NoProfile

\* what a social account links: its tokens left aside
Link(a) == [id |-> a.id, user_id |-> a.user_id, provider |-> a.provider, provider_user_id |-> a.provider_user_id]

\* the rows for the profile's identity, and the users with its email, before
IdentityRows0 ==
    {a \in last.accounts0 : a.provider = last.provider /\ a.provider_user_id = last.profile.provider_user_id}
EmailUsers0 == {u \in last.users0 : u.email = last.profile.email}

\* the rows and users added since
NewRows == {a \in accounts : a.id \notin {b.id : b \in last.accounts0}}
NewUsers == {u \in users : u.id \notin {v.id : v \in last.users0}}

Emitted(event) == \E i \in 1..Len(last.emitted) : last.emitted[i] = event

NoSession == last.access_type = None /\ ~last.refresh /\ ~last.requires_2fa

LinkRejectedAtEntry == nreq' = nreq + 1 /\ req' = req /\ last'.op = "link"
LinkAnswered(r) == req[r].op = "link" /\ req[r].pc # "idle" /\ req'[r].pc = "idle"
NothingStored == accounts' = accounts /\ users' = users /\ passkeys' = passkeys

ValidAccess(h) == h.scheme = "Bearer" /\ h.key = JwtSecret /\ ~h.expired /\ h.type = "access"

\* C22: for an enabled provider, authorize with mode link and no valid bearer
\* access token answers 401 and mints no state; with a valid access token
\* (and a redirect_uri) it mints a state whose link_user_id is the token's
\* sub; a login-mode state has no link_user_id whatever the header; every
\* minted state has the request's provider (lower-cased), redirect_uri, mode
\* and code challenge; any answer but 200 mints nothing.
C22_LinkStateNeedsCaller ==
    [][(nreq' = nreq + 1 /\ last'.op = "authorize")
       => /\ ( /\ last'.mode = "link" /\ ~ValidAccess(last'.auth)
               /\ last'.provider \in Providers )
             => last'.status = 401
          /\ ( /\ last'.mode = "link" /\ ValidAccess(last'.auth) /\ ~Falsy(last'.auth.sub)
               /\ last'.provider \in Providers /\ ~Falsy(last'.redirect_uri) )
             => /\ last'.status = 200
                /\ last'.state.mode = "link"
                /\ last'.state.link_user_id = last'.auth.sub
          /\ last'.status = 200
             => /\ tokens' = tokens \cup {last'.state} /\ last'.state \notin tokens
                /\ last'.state.type = "oauth_state" /\ last'.state.key = SigningKey
                /\ last'.state.provider = last'.provider
                /\ last'.state.redirect_uri = last'.redirect_uri
                /\ last'.state.mode = last'.mode
                /\ last'.state.cc = last'.code_challenge
                /\ last'.mode = "login" => last'.state.link_user_id = None
                /\ last'.mode = "link" => /\ ValidAccess(last'.auth)
                                          /\ last'.state.link_user_id = last'.auth.sub
          /\ last'.status # 200
             => tokens' = tokens /\ minted' = minted /\ last'.state = NoToken ]_vars

\* a link-mode state was minted for the bearer of an access token
C22_Witness ==
    /\ last.op = "authorize" /\ last.status = 200 /\ last.mode = "link"
    /\ ValidAccess(last.auth) /\ last.auth.sub = "u2"
    /\ last.state \in tokens /\ last.state.link_user_id = "u2"
    /\ last.state.cc = "c2"

\* ---- the provider gate

\* a provider is usable: listed in features.social_login, each of its
\* required settings set and not empty
Usable(provider) ==
    /\ provider \in config.social_login
    /\ provider \in KnownProviders
    /\ \A f \in (IF provider = "apple" THEN {"client_id", "team_id", "key_id", "private_key"} ELSE {"client_id", "client_secret"}) :
          config.creds[provider][f] \notin {None, ""}

\* the listing reports provider as enabled
ListedEnabled(listing, provider) ==
    \E i \in DOMAIN listing : listing[i].name = provider /\ listing[i].enabled

\* authorize, callback and link answer 400 for a provider that is not usable,
\* before any state is minted or verified and before any provider call, and
\* do not answer so for one that is
GateRejectsUnusable ==
    \A x \in Recs :
        (x.op \in {"authorize", "callback", "link"})
        => IF Usable(x.provider)
           THEN x.detail \notin {"provider_not_enabled", "provider_not_configured"}
           ELSE /\ x.pc = "done" /\ x.status = 400
                /\ x.detail \in {"provider_not_enabled", "provider_not_configured"}
                /\ x.state_check = None /\ ~x.called /\ ~x.wrote
                /\ x.op = "authorize" => x.state = NoToken

\* C23: a provider is usable exactly when it is listed in
\* features.social_login and its credential set is complete; the providers
\* listing is answered with the providers enabled exactly in that case, and
\* authorize, callback and link answer 400 for any other provider before
\* minting or verifying a state and before any provider call.
C23_UsableIffListedAndComplete ==
    /\ GateRejectsUnusable
    /\ last.op = "get_providers"
         => /\ last.status = 200
            /\ \A p \in KnownProviders : ListedEnabled(last.listing, p) <=> Usable(p)

\* ---- events

\* auth_events' event kinds of the social login flows
EventKinds == {"user_registered", "user_logged_in", "social_account_linked", "social_account_unlinked"}

\* how often the last request emitted event
Count(event) == Cardinality({i \in 1..Len(last.emitted) : last.emitted[i] = event})

ProducedByEncrypt(e) ==
    /\ e.box.key # None
    /\ e = encrypt(e.box.plaintext, e.box.key, e.nonce).value

\* neither the configuration nor the environment holds an encryption key
NoKeyConfigured == config.oauth_token_encryption_key = None /\ environ = None

\* the row the request answered last wrote, as the table holds it
WrittenBy(rec) == {a \in accounts : a.id = rec.row.id}

\* C25: each of access_token_enc, refresh_token_enc and id_token_enc of every
\* social account is null or a "v1:" envelope produced by encrypt; and with
\* no encryption key configured, the row a callback or link answered with
\* 200 wrote holds null for every token the provider sent
C25_TokensNeverPlaintext ==
    /\ \A a \in accounts : \A f \in TokenFields :
          a.tokens[f] = Null \/ (a.tokens[f].prefix = VERSION_PREFIX /\ ProducedByEncrypt(a.tokens[f]))
    /\ (NoKeyConfigured /\ last.op \in {"callback", "link"} /\ last.status = 200) =>
          \A a \in WrittenBy(last) : \A f \in TokenFields :
              ~Falsy(last.oauth_tokens[f]) => a.tokens[f] = Null

\* with no key configured, a callback that received an access token replaced
\* the envelope of an existing row by null
C25_Witness ==
    /\ NoKeyConfigured /\ last.op = "callback" /\ last.status = 200
    /\ last.oauth_tokens.access_token = "at1"
    /\ \E a \in WrittenBy(last) : a.id = 1 /\ a.tokens["access_token"] = Null

\* ---- the token cipher

\* the key an envelope was sealed under
SealedUnder(e) == e.box.key

\* C26: decrypt(encrypt(s, k), k) = s for every string s, the empty one
\* included, and every valid key k, and what encrypt returns starts with
\* the version prefix "v1:"
C26_RoundTrip ==
    /\ (last.op = "encrypt" /\ last.key # None /\ last.plaintext # None) =>
          /\ last.status = 200
          /\ last.encrypted.prefix = VERSION_PREFIX
          /\ decrypt(last.encrypted, last.key) = [error |-> None, value |-> last.plaintext]
    /\ (last.op = "decrypt" /\ last.key # None /\ last.encrypted = last.origin
          /\ last.origin # Null /\ SealedUnder(last.origin) = last.key) =>
          last.status = 200 /\ last.decrypted = last.plaintext

\* the envelope of the empty string was decrypted with the key it was
\* encrypted with
C26_Witness ==
    /\ last.op = "decrypt" /\ last.key = OtherEncryptionKey /\ last.plaintext = ""
    /\ last.encrypted = last.origin /\ SealedUnder(last.origin) = OtherEncryptionKey
    /\ last.status = 200 /\ last.decrypted = ""

\* an envelope that has the prefix, decodes, and holds more than the nonce
StructurallyValid(e) ==
    e.prefix = VERSION_PREFIX /\ e.form \in {"canonical", "lenient"} /\ e.length > NONCE_LENGTH

\* C27: decrypt with a configured key answers an envelope that is not
\* structurally valid with ValueError, a structurally valid one that was
\* produced under another key or modified after encryption with InvalidTag,
\* and whenever it returns a string, that is the string that was encrypted
C27_FormatVsAuthentication ==
    (last.op = "decrypt" /\ last.key # None /\ last.origin # Null) =>
        /\ ~StructurallyValid(last.encrypted) => last.detail = "ValueError"
        /\ (StructurallyValid(last.encrypted)
              /\ (SealedUnder(last.origin) # last.key \/ last.encrypted # last.origin)) =>
                 last.detail = "InvalidTag"
        /\ last.status = 200 => last.decrypted = last.plaintext

\* what does hold: a structurally valid envelope fails with InvalidTag when it
\* was produced under another key or decodes to other bytes than encrypt wrote
DecryptRejectsChangedBytes ==
    (last.op = "decrypt" /\ last.key # None /\ last.origin # Null) =>
        /\ ~StructurallyValid(last.encrypted) => last.detail = "ValueError"
        /\ (StructurallyValid(last.encrypted)
              /\ (SealedUnder(last.origin) # last.key
                    \/ [last.encrypted EXCEPT !.form = "canonical"] # last.origin)) =>
                 last.detail = "InvalidTag"
        /\ last.status = 200 => last.decrypted = last.plaintext

\* ---- the provider adapters

\* C28: every failure of get_user_identity reaches callback and link as an
\* OAuthProviderError and is answered with 400 and the provider error; no
\* other exception leaves the handler, and no user or social account changes
C28_AdapterFailuresAnswered400 ==
    (last.op \in {"callback", "link"} /\ last.called /\ last.exception # None) =>
        /\ last.exception \in OAuthProviderErrors
        /\ last.status = 400 /\ last.detail = "provider_error"
        /\ users = InitUsers
        /\ \A a \in accounts : a.id = 1 /\ a.tokens = EarlierTokens

\* what does hold: an OAuthProviderError is answered 400, and whatever the
\* adapter raises, the tables stay as they were
ProviderErrorsAnswered400 ==
    /\ (last.op \in {"callback", "link"} /\ last.exception \in OAuthProviderErrors) =>
          last.status = 400 /\ last.detail = "provider_error"
    /\ users = InitUsers
    /\ \A a \in accounts : a.id = 1 /\ a.tokens = EarlierTokens

\* the request reached the token endpoint
TokenRequestSent(rec) ==
    ~Falsy(rec.code_verifier) /\ ~(rec.provider = "apple" /\ config.creds["apple"]["private_key"] = BadPem)

\* C29: exchange_token of every adapter fails with OAuthTokenExchangeError
\* carrying the provider's error payload when the token endpoint answers
\* with a status other than 200 and when it answers 200 with an error field
\* in the body, and returns tokens only for a body with an access token and
\* no error
C29_ExchangeTokenErrors ==
    (last.op = "exchange_token" /\ TokenRequestSent(last) /\ last.token_response.kind = "response") =>
        LET tr == last.token_response
        IN  /\ (tr.status # 200 \/ (tr.body = "json" /\ tr.error # None)) =>
                  /\ last.exception = "OAuthTokenExchangeError"
                  /\ last.details = IF tr.body = "json" THEN Payload(tr) ELSE EmptyPayload
            /\ last.exception = None =>
                  tr.body = "json" /\ ~Falsy(tr.access_token) /\ tr.error = None

\* what does hold for GitHub's adapter, whose error bodies are JSON
GitHubExchangeTokenErrors ==
    (last.op = "exchange_token" /\ TokenRequestSent(last) /\ last.token_response.kind = "response"
       /\ last.provider = "github" /\ last.token_response.body # "text") =>
        LET tr == last.token_response
        IN  /\ (tr.status # 200 \/ (tr.body = "json" /\ tr.error # None)) =>
                  /\ last.exception = "OAuthTokenExchangeError"
                  /\ last.details = IF tr.body = "json" THEN Payload(tr) ELSE EmptyPayload
            /\ last.exception = None =>
                  tr.body = "json" /\ ~Falsy(tr.access_token) /\ tr.error = None

\* ---- the provider factory

\* C30: get_provider(name, config = C) returns an adapter whose client id and
\* secret (for Apple: team id, key id and private key) are those of C,
\* whatever calls came before
C30_AdapterHasCallersCredentials ==
    (last.op = "get_provider" /\ last.status = 200) =>
        last.adapter = NewAdapter(last.provider, config.creds[last.provider])

\* what does hold: an adapter built by the call, the cache passed over or
\* having no entry for the name, has the credentials of the call
UncachedAdapterHasCallersCredentials ==
    [][(last'.op = "get_provider" /\ last'.status = 200
          /\ (~last'.use_cache \/ _provider_cache[last'.provider] = NoAdapter)) =>
            last'.adapter = NewAdapter(last'.provider, config'.creds[last'.provider])]_vars

\* ---- verify_state's order of checks

Mismatches == {"provider_mismatch", "redirect_uri_mismatch", "mode_mismatch"}

\* the token's signature verifies and its exp claim is not past at the call
Authentic(rec) == rec.state.key = SigningKey /\ Seconds(rec.at) <= rec.state.exp

ClaimsPresent(s) == s.provider # None /\ s.redirect_uri # None /\ s.mode # None

\* the structural checks, (2) to (5) of the claim
WellFormed(s) ==
    /\ s.type = "oauth_state"
    /\ ClaimsPresent(s)
    /\ s.mode \in {"login", "link"}
    /\ s.mode = "link" => ~Falsy(s.link_user_id)

\* the expected values the caller supplied that the token disagrees with
Disagreeing(rec) ==
    {f \in {"provider", "redirect_uri", "mode"} : rec[f] # None /\ rec.state[f] # rec[f]}

\* C32: verify_state reports the first failure in the order signature and
\* expiry (Invalid, Expired), type (Invalid), presence of provider,
\* redirect_uri and mode (MissingField), mode one of login and link (Invalid),
\* link_user_id in link mode (MissingField); only a token passing all of these
\* is compared with the expected values the caller supplied, the mismatch
\* reported names a field that disagrees, and a token failing a structural
\* check is never reported as a mismatch.
C32_CheckOrder ==
    last.op = "verify_state" =>
        LET s == last.state
            typed == Authentic(last) /\ s.type = "oauth_state"
        IN  /\ s.key # SigningKey
                 => last.state_check = "invalid_token" /\ last.detail = "OAuthStateInvalidError"
            /\ (s.key = SigningKey /\ Seconds(last.at) > s.exp)
                 => last.state_check = "expired" /\ last.detail = "OAuthStateExpiredError"
            /\ (Authentic(last) /\ s.type # "oauth_state")
                 => last.state_check = "invalid_type" /\ last.detail = "OAuthStateInvalidError"
            /\ (typed /\ ~ClaimsPresent(s))
                 => /\ last.detail = "OAuthStateMissingFieldError"
                    /\ \E f \in {"provider", "redirect_uri", "mode"} :
                          s[f] = None /\ last.state_check = IF f = "provider" THEN "missing_provider"
                                                            ELSE IF f = "mode" THEN "missing_mode"
                                                            ELSE "missing_redirect_uri"
            /\ (typed /\ ClaimsPresent(s) /\ s.mode \notin {"login", "link"})
                 => last.state_check = "invalid_mode" /\ last.detail = "OAuthStateInvalidError"
            /\ (typed /\ ClaimsPresent(s) /\ s.mode = "link" /\ Falsy(s.link_user_id))
                 => last.state_check = "missing_link_user_id" /\ last.detail = "OAuthStateMissingFieldError"
            /\ last.state_check \in Mismatches
                 => /\ Authentic(last) /\ WellFormed(s)
                    /\ last.detail = "OAuthStateInvalidError"
                    /\ \E f \in Disagreeing(last) :
                          last.state_check = IF f = "provider" THEN "provider_mismatch"
                                             ELSE IF f = "mode" THEN "mode_mismatch"
                                             ELSE "redirect_uri_mismatch"
            /\ (Authentic(last) /\ WellFormed(s))
                 => /\ Disagreeing(last) # {} => last.state_check \in Mismatches
                    /\ Disagreeing(last) = {} => last.state_check = "ok" /\ last.status = 200

\* a token in link mode for no user, presented where another provider and the
\* login mode were expected, has been reported as missing its link_user_id
C32_Witness ==
    /\ last.op = "verify_state" /\ Authentic(last)
    /\ last.state.type = "oauth_state" /\ last.state.mode = "link"
    /\ Falsy(last.state.link_user_id)
    /\ last.provider = "github" /\ last.mode = "login"
    /\ last.state_check = "missing_link_user_id"
    /\ last.detail = "OAuthStateMissingFieldError"

\* ---- sign_state's argument checks

\* the arguments of the sign_state call recorded in rec describe a consistent
\* state: caller holds the link_user_id argument
Consistent(rec) ==
    /\ ~Falsy(rec.provider) /\ ~Falsy(rec.redirect_uri)
    /\ rec.mode \in {"login", "link"}
    /\ rec.mode = "link" <=> ~Falsy(rec.caller)

\* C33: sign_state returns a token only for a consistent state: provider and
\* redirect_uri non-empty, mode login or link, link_user_id present if and
\* only if mode is link; no login-mode token carries a link_user_id.
C33_SignOnlyConsistent ==
    /\ last.op = "sign_state" => (last.status = 200 => Consistent(last))
    /\ \A s \in tokens : s.mode = "login" => s.link_user_id = None

\* what sign_state does check: it fails exactly when provider or redirect_uri
\* is empty, mode is neither login nor link, or mode is link without a
\* link_user_id
SignStateChecksArguments ==
    last.op = "sign_state" =>
        ( last.status = 200
          <=> /\ ~Falsy(last.provider) /\ ~Falsy(last.redirect_uri)
              /\ last.mode \in {"login", "link"}
              /\ last.mode = "link" => ~Falsy(last.caller) )

\* ---- Apple's JWKS cache

Ttl == jwks_cache_ttl_seconds * TicksPerSecond

\* a call of _get_apple_jwks ends with this step
JwksReturns == last' # last /\ last'.op = "_get_apple_jwks"

\* the answer a fetching call is given with this step
JwksAnswer == last'.profile_response

\* this step starts a call of _get_apple_jwks
JwksCalled == nreq' = nreq + 1

\* the key lists with status 200 received less than the ttl before tick t
Young(t) == {s \in served : t - s.at < Ttl}

\* C31 as claimed: under any interleaving of the calls,
\* (a) every call that returns hands back the non-empty key list of a JWKS
\*     response with status 200;
\* (b) a call returns the cached list without fetching only if that list was
\*     received less than jwks_cache_ttl_seconds ago, and fetches when nothing
\*     is cached or the cached list was received that long ago or longer;
\* (c) every fetch that does not return keys raises OAuthProfileError and
\*     leaves the cached list and its time as they were.
C31_JwksCache ==
    [][ /\ (JwksReturns /\ last'.status = 200)
             => /\ last'.jwks.present /\ last'.jwks.keys # {}
                /\ \E s \in served' : s.keys = last'.jwks.keys
        /\ (JwksReturns /\ last'.status = 200 /\ ~last'.called)
             => /\ last'.jwks = _jwks_cache
                /\ \E s \in Young(now) : s.keys = last'.jwks.keys
        /\ (JwksCalled /\ ( \/ ~_jwks_cache.present
                            \/ \A s \in served : s.keys = _jwks_cache.keys => now - s.at >= Ttl ))
             => \E r \in Reqs : req[r].pc = "idle" /\ req'[r].pc = "jwks_fetch" /\ req'[r].called
        /\ (JwksReturns /\ last'.called /\ last'.status # 200)
             => /\ last'.exception = "OAuthProfileError"
                /\ _jwks_cache' = _jwks_cache /\ _jwks_cached_at' = _jwks_cached_at ]_vars

\* C31 as amended: (a) and (b) as claimed; (c) a fetch that does not return
\* keys raises OAuthProfileError when the request fails, the status is not
\* 200 or the JSON object has no keys, JSONDecodeError when the body of a 200
\* response is no JSON and AttributeError when it is JSON but no object; in
\* every one of these cases the cached list and its time stay as they were.
C31_JwksCacheAmended ==
    [][ /\ (JwksReturns /\ last'.status = 200)
             => /\ last'.jwks.present /\ last'.jwks.keys # {}
                /\ \E s \in served' : s.keys = last'.jwks.keys
        /\ (JwksReturns /\ last'.status = 200 /\ ~last'.called)
             => /\ last'.jwks = _jwks_cache
                /\ \E s \in Young(now) : s.keys = last'.jwks.keys
        /\ (JwksCalled /\ ( \/ ~_jwks_cache.present
                            \/ \A s \in served : s.keys = _jwks_cache.keys => now - s.at >= Ttl ))
             => \E r \in Reqs : req[r].pc = "idle" /\ req'[r].pc = "jwks_fetch" /\ req'[r].called
        /\ (JwksReturns /\ last'.called /\ last'.status # 200)
             => /\ _jwks_cache' = _jwks_cache /\ _jwks_cached_at' = _jwks_cached_at
                /\ LET resp == JwksAnswer
                   IN  last'.exception =
                          CASE resp.kind = "network_error" -> "OAuthProfileError"
                            [] resp.status # 200 -> "OAuthProfileError"
                            [] resp.body = "text" -> "JSONDecodeError"
                            [] resp.body = "json_list" -> "AttributeError"
                            [] OTHER -> "OAuthProfileError"
        /\ (JwksReturns /\ last'.called /\ last'.status = 200)
             => /\ JwksAnswer.status = 200 /\ JwksAnswer.body = "json"
                /\ last'.jwks.keys = JwksAnswer.keys ]_vars

\* two calls fetched at the same time, the one that started first stored its
\* keys last, and a later call was handed that list from the cache
C31_Witness ==
    /\ last.op = "_get_apple_jwks" /\ last.status = 200 /\ ~last.called
    /\ last.jwks = _jwks_cache /\ _jwks_cached_at < last.at
    /\ Cardinality({s.keys : s \in served}) = 2
    /\ \E s \in served : s.keys # _jwks_cache.keys /\ s.at > _jwks_cached_at

\* ---- the profile an adapter returns

GitHubCall == last.op = "fetch_profile" /\ last.provider = "github"

\* /user answered with a JSON object
UserFetched == last.profile_response.kind = "response" /\ last.profile_response.status = 200
                 /\ last.profile_response.body = "json"

\* the entries of the list /user/emails answered with, none if it failed
Entries ==
    IF last.emails_response.kind = "response" /\ last.emails_response.status = 200
         /\ last.emails_response.body = "json"
    THEN {last.emails_response.entries[i] : i \in 1..Len(last.emails_response.entries)}
    ELSE {}

\* the entries the claim prefers: primary and verified, else verified, else
\* primary
Preferred ==
    IF \E e \in Entries : e.primary /\ e.verified THEN {e \in Entries : e.primary /\ e.verified}
    ELSE IF \E e \in Entries : e.verified THEN {e \in Entries : e.verified}
    ELSE {e \in Entries : e.primary}

\* C34: for every list of entries, fetch_profile of GitHub's adapter returns
\* a profile whose email is that of an entry that is primary and verified if
\* there is one, else of a verified entry, else of the primary entry, with
\* email_verified true in the first two cases and false in the third; with
\* no such entry, or the emails endpoint failing, the email is the public one
\* of /user and email_verified is unknown; provider_user_id is the string
\* form of the numeric id.
C34_GitHubEmailSelection ==
    (GitHubCall /\ UserFetched /\ last.profile_response.sub # None)
    => /\ last.exception = None /\ last.status = 200
       /\ last.profile.provider_user_id = last.profile_response.sub
       /\ Preferred # {}
            => \E e \in Preferred : /\ last.profile.email = e.email
                                    /\ last.profile.email_verified = e.verified
       /\ Preferred = {}
            => last.profile.email = last.profile_response.email

\* what holds of the arguments fetch_profile hands to OAuthProfile when every
\* entry carries its address: the address and the flag follow the claimed
\* preference, the public address is the fallback, and the subject is the
\* decimal form of the id
GitHubSelectsEmail ==
    (GitHubCall /\ UserFetched /\ \A e \in Entries : ~Falsy(e.email))
    => /\ Preferred # {}
            => \E e \in Preferred : /\ last.kwargs.email = e.email
                                    /\ last.kwargs.email_verified = IF e.verified THEN "True" ELSE "False"
       /\ Preferred = {}
            => /\ last.kwargs.email = last.profile_response.email
               /\ last.kwargs.email_verified = "None"
       /\ last.profile_response.sub # None
            => last.kwargs.provider_user_id = last.profile_response.sub
       /\ last.kwargs.provider_user_id \in {"42", "None"}

\* the profile endpoint answered a fetch_profile call with a JSON object
\* (for Apple: the id_token was there and verified)
PayloadRead ==
    /\ last.op = "fetch_profile" /\ UserFetched
    /\ last.provider = "apple" => ~Falsy(last.oauth_tokens.id_token)

\* C35: fetch_profile of every adapter returns a profile only when the payload
\* carries the subject identifier, and then with provider_user_id equal to
\* it; a payload without the subject identifier yields OAuthProfileError, and
\* no placeholder is passed on as provider_user_id.
C35_SubjectRequired ==
    PayloadRead
    => /\ last.exception = None
            => /\ last.profile_response.sub # None
               /\ last.profile.provider_user_id = last.profile_response.sub
       /\ last.profile_response.sub = None
            => /\ last.exception = "OAuthProfileError"
               /\ last.kwargs = NoKwargs

\* what holds: Google's and Apple's adapters answer a payload without sub, or
\* with an empty one, with OAuthProfileError before a profile is built, and
\* otherwise pass the sub on unchanged
GoogleAppleRequireSubject ==
    (PayloadRead /\ last.provider \in {"google", "apple"})
    => /\ Falsy(last.profile_response.sub)
            => last.exception = "OAuthProfileError" /\ last.kwargs = NoKwargs
       /\ ~Falsy(last.profile_response.sub)
            => last.kwargs.provider_user_id = last.profile_response.sub

\* ---- the stored tokens after a callback

\* a member of OAuthTokens that is set: neither None nor empty
Present(v) == ~Falsy(v)

\* this step ends a callback with a session
CallbackSucceeds(r) ==
    /\ req[r].op = "callback" /\ req[r].pc = "cb_finish" /\ req'[r].pc = "idle"
    /\ last'.status = 200

\* the key the tokens are sealed under, None when none is configured
StorageKey == IF config.oauth_token_encryption_key # None THEN config.oauth_token_encryption_key ELSE environ

\* the frame and the plain columns, claimed and amended alike: the row of the
\* identity logged in exists and belongs to the user logged in; token_type,
\* scope and expires_at hold the new value where the exchange set one and
\* their earlier value otherwise; every other row is as it was
RowRefreshed(r, before, after) ==
    /\ after.id = before.id /\ after.user_id = last'.user
    /\ after.provider = last'.provider
    /\ after.provider_user_id = last'.profile.provider_user_id
    /\ \A f \in PlainFields :
          after.tokens[f] = IF Present(last'.oauth_tokens[f]) THEN last'.oauth_tokens[f] ELSE before.tokens[f]
    /\ \A f \in TokenFields :
          ~Present(last'.oauth_tokens[f]) => after.tokens[f] = before.tokens[f]
    /\ accounts' \ {after} = accounts \ {before}

CallbackEnds(r) == req[r].op = "callback" /\ req[r].pc # "idle" /\ req'[r].pc = "idle"

\* the users a callback created that own no social account
Accountless == {u \in users : u.id \in NewUserIds /\ ~u.has_usable_password /\ SocialCount(u.id) = 0}

NewUserOwnsAccountOn200 ==
    [][ \A r \in Reqs : CallbackEnds(r) /\ req[r].created_user /\ last'.status = 200
          => \E a \in accounts' : a.user_id = req[r].user /\ a.provider = req[r].provider ]_vars

\* the failing case: the insert of the new user's social account was
\* refused, the callback answered 500 and the user it committed has no
\* social account
C37_Stranded ==
    /\ last.op = "callback" /\ last.status = 500 /\ last.created_user /\ last.conflict
    /\ \E u \in Accountless : u.id = last.user

\* ---- two callbacks with one email

\* the users holding the email of the profile a callback resolved
Holders(email) == {u \in users' : u.email = email}

\* an answer the handler chose: a session, or an HTTPException it raised
Handled(status) == status \in {200, 400, 403, 409}

AtMostOneUserPerEmail == \A u, v \in users : u.email = v.email => u = v

\* the failing case: the callback that lost the race ended with the
\* IntegrityError of the users table, after the winner's user was committed
C38_LoserUnhandled ==
    /\ last.op = "callback" /\ last.status = 500 /\ last.detail = "IntegrityError_users_email"
    /\ \E u \in users : u.id \in NewUserIds /\ u.email = last.profile.email

\* ---- disabled users

\* the user a callback resolved: the owner of the identity's row, the user
\* with the profile's email, or the user it created
ResolvedDisabled(r) ==
    /\ req[r].op = "callback" /\ req[r].pc = "cb_finish"
    /\ \E u \in users : u.id = req[r].user /\ ~u.is_active

ChecksPassed(x) ==
    /\ _require_enabled_provider(x.provider) = None
    /\ verify_state_for_callback(x.state, SigningKey, x.provider, x.redirect_uri, x.at) = "ok"
    /\ x.op = "callback" => x.state.mode # "link"
    /\ x.op = "link" => x.state.mode = "link" /\ x.state.link_user_id = x.caller
    /\ _verify_pkce_binding(x.state, x.code_verifier) = "ok"

\* this step sends the authorization code of request r to the provider
ContactsProvider(r) ==
    /\ req[r].pc # "idle" /\ ~req[r].called
    /\ req'[r].called \/ (req'[r].pc = "idle" /\ last'.called)

\* this step answers a callback or link request at its entry checks
RejectedAtEntry == nreq' = nreq + 1 /\ req' = req /\ last'.op \in {"callback", "link"}

\* C40: callback and link_account contact the provider only after the
\* provider-enabled check, the state verification, the mode check, the PKCE
\* binding check and, for link, the link_user_id check and the lookup of the
\* caller's link under the provider have all passed; a request that one of
\* them rejects is answered without a provider call.
C40_ChecksBeforeExchange ==
    [][ /\ \A r \in Reqs :
             (req[r].pc = "idle" /\ req'[r].pc \in {"cb_exchange", "lk_exchange"})
             => /\ ChecksPassed(req'[r])
                /\ req'[r].op = "link" => ByUserProvider(req'[r].caller, req'[r].provider) = {}
                /\ ~req'[r].called
        /\ \A r \in Reqs :
             ContactsProvider(r)
             => req[r].pc \in {"cb_exchange", "lk_exchange"} /\ ChecksPassed(req[r])
        /\ RejectedAtEntry
             => /\ ~last'.called
                /\ \/ ~ChecksPassed(last')
                   \/ last'.op = "link" /\ ByUserProvider(last'.caller, last'.provider) # {}
                   \/ last'.status = 500 ]_vars

\* a link request that passed every check on its state and verifier was
\* answered 400 for the caller's existing link, the provider not contacted
C40_Witness ==
    /\ last.op = "link" /\ last.status = 400 /\ last.detail = "provider_already_linked"
    /\ ChecksPassed(last) /\ ~last.called
    /\ ByUserProvider(last.caller, last.provider) # {}

====
